---- MODULE Spec2Model ----
(***************************************************************************)
(* Model of src/pipelines/00_trim_proceedings_text.py: the proceedings     *)
(* detector, abstract segmenter, candidate scorer, decision engine and     *)
(* the batch driver.  Text is modelled as TLA+ strings, page by page and   *)
(* character by character; scores are exact rationals <<num, den>>.        *)
(***************************************************************************)
EXTENDS Integers, Sequences, FiniteSets, TLC

(***************************************************************************)
(* Characters and the Python string primitives the pipeline uses.          *)
(***************************************************************************)
At(s, i) == SubSeq(s, i, i)

UpperChars == "ABCDEFGHIJKLMNOPQRSTUVWXYZ"
LowerChars == "abcdefghijklmnopqrstuvwxyz"
DigitChars == "0123456789"

CharSet(s) == {At(s, i) : i \in 1..Len(s)}

UpperSet == CharSet(UpperChars)
LowerSet == CharSet(LowerChars)
DigitSet == CharSet(DigitChars)

\* non-ASCII letters of the modelled alphabet: NFKD splits the accented ones into a
\* base letter and a combining mark, the others have no decomposition
AccentedChars == "éöüÉ"
AccentBases == "eouE"
UndecomposableChars == "ßø"
AccentedSet == CharSet(AccentedChars)
UndecomposableSet == CharSet(UndecomposableChars)

IsUpper(c) == c \in UpperSet
IsLower(c) == c \in LowerSet
IsDigit(c) == c \in DigitSet
IsAlpha(c) == IsUpper(c) \/ IsLower(c)
\* \s of the re module and the separators of str.split(), on the modelled alphabet
IsSpace(c) == c \in {" ", "\t", "\n"}
\* \w of the re module (Unicode-aware for str patterns) on the modelled alphabet
IsWordChar(c) ==
    \/ IsAlpha(c) \/ IsDigit(c) \/ c = "_"
    \/ c \in AccentedSet \/ c \in UndecomposableSet

\* str.lower() on one character
LowerOf == [c \in UpperSet |-> At(LowerChars, CHOOSE i \in 1..Len(UpperChars) : At(UpperChars, i) = c)]
LowerChar(c) == IF c \in UpperSet THEN LowerOf[c] ELSE c

\* str.lower(), character by character (the string is halved to keep the recursion shallow)
RECURSIVE lower(_)
lower(s) ==
    IF Len(s) = 0 THEN ""
    ELSE IF Len(s) = 1 THEN LowerChar(s)
    ELSE lower(SubSeq(s, 1, Len(s) \div 2)) \o lower(SubSeq(s, Len(s) \div 2 + 1, Len(s)))

\* needle in hay
Contains(hay, needle) ==
    \E i \in 0..(Len(hay) - Len(needle)) : SubSeq(hay, i + 1, i + Len(needle)) = needle

\* str.count for a single character
count(s, c) == Cardinality({i \in 1..Len(s) : At(s, i) = c})

\* str.strip()
RECURSIVE lstrip(_)
lstrip(s) == IF s # "" /\ IsSpace(At(s, 1)) THEN lstrip(Tail(s)) ELSE s

RECURSIVE rstrip(_)
rstrip(s) ==
    IF s # "" /\ IsSpace(At(s, Len(s))) THEN rstrip(SubSeq(s, 1, Len(s) - 1)) ELSE s

strip(s) == rstrip(lstrip(s))

\* the positions 1..Len(s), in order
Positions(s) == [i \in 1..Len(s) |-> i]

\* str.split(): the maximal runs of non-whitespace characters, in order
split(s) ==
    LET starts == SelectSeq(Positions(s), LAMBDA i :
                      ~IsSpace(At(s, i)) /\ (i = 1 \/ IsSpace(At(s, i - 1))))
        stops == SelectSeq(Positions(s), LAMBDA i :
                      ~IsSpace(At(s, i)) /\ (i = Len(s) \/ IsSpace(At(s, i + 1))))
    IN  [n \in DOMAIN starts |-> SubSeq(s, starts[n], stops[n])]

\* str.split(sep, 1)[0]: the text before the first separator character
before_first(s, sep) ==
    LET hits == {i \in 1..Len(s) : At(s, i) = sep} IN
    IF hits = {} THEN s
    ELSE SubSeq(s, 1, (CHOOSE i \in hits : \A j \in hits : i <= j) - 1)

\* re.split(sep, s) for a single separator character: every piece, empty ones included
split_on(s, sep) ==
    LET hits == SelectSeq(Positions(s), LAMBDA i : At(s, i) = sep)
    IN  [n \in 1..(Len(hits) + 1) |->
            SubSeq(s, IF n = 1 THEN 1 ELSE hits[n - 1] + 1,
                      IF n = Len(hits) + 1 THEN Len(s) ELSE hits[n] - 1)]

\* str.splitlines(): pieces between line breaks, no trailing empty piece
splitlines(s) ==
    LET pieces == split_on(s, "\n") IN
    IF pieces[Len(pieces)] = "" THEN SubSeq(pieces, 1, Len(pieces) - 1) ELSE pieces

\* sep.join(parts) (the list is halved to keep the recursion shallow)
RECURSIVE join(_, _)
join(sep, parts) ==
    IF Len(parts) = 0 THEN ""
    ELSE IF Len(parts) = 1 THEN parts[1]
    ELSE join(sep, SubSeq(parts, 1, Len(parts) \div 2)) \o sep
         \o join(sep, SubSeq(parts, Len(parts) \div 2 + 1, Len(parts)))

Range(f) == {f[i] : i \in DOMAIN f}

(***************************************************************************)
(* normalize_text: NFKD + ASCII-only + lower + non-alphanumerics to space  *)
(* + whitespace collapse.                                                  *)
(***************************************************************************)
\* unicodedata.normalize("NFKD", c).encode("ascii", "ignore") on one character:
\* an accented letter keeps its base letter, other non-ASCII characters vanish
BaseOf ==
    [c \in AccentedSet |->
        At(AccentBases, CHOOSE i \in 1..Len(AccentedChars) : At(AccentedChars, i) = c)]

ascii_fold(c) ==
    IF c \in AccentedSet THEN BaseOf[c]
    ELSE IF c \in UndecomposableSet THEN ""
    ELSE c

RECURSIVE ascii_text(_)
ascii_text(s) ==
    IF Len(s) = 0 THEN ""
    ELSE IF Len(s) = 1 THEN ascii_fold(s)
    ELSE ascii_text(SubSeq(s, 1, Len(s) \div 2))
         \o ascii_text(SubSeq(s, Len(s) \div 2 + 1, Len(s)))

\* re.sub(r"[^a-z0-9]+", " ", s), one character at a time (runs collapse in the split below)
RECURSIVE non_alnum_to_space(_)
non_alnum_to_space(s) ==
    IF Len(s) = 0 THEN ""
    ELSE IF Len(s) = 1 THEN (IF IsLower(s) \/ IsDigit(s) THEN s ELSE " ")
    ELSE non_alnum_to_space(SubSeq(s, 1, Len(s) \div 2))
         \o non_alnum_to_space(SubSeq(s, Len(s) \div 2 + 1, Len(s)))

normalize_text(text) == join(" ", split(non_alnum_to_space(lower(ascii_text(text)))))

token_set(text, min_len) == {tok \in Range(split(normalize_text(text))) : Len(tok) >= min_len}

bool_text(value) == IF value THEN "true" ELSE "false"

(***************************************************************************)
(* Line classifiers.                                                       *)
(***************************************************************************)
PROGRAM_MARKERS ==
    <<"annual meeting", "program and abstracts", "program abstracts",
      "poster sessions", "poster presentations">>

AUTHOR_CREDENTIALS ==
    <<"MD", "M.D.", "DO", "D.O.", "PHD", "PH.D.", "MSC", "M.S.", "MS", "BS", "B.S.",
      "BA", "B.A.", "MBA", "MBBS", "MPH", "RN", "FRCPC", "FAAN", "FRCP", "DPhil">>

INSTITUTION_MARKERS ==
    <<"university", "hospital", "medical center", "school of medicine", "clinic",
      "department", "institute", "center", "centre", "usa", "canada", "united kingdom",
      "australia", "japan", "italy", "france", "germany", "korea">>

FOOTER_MARKERS ==
    <<"annals of neurology", "downloaded from https://", "terms and conditions",
      "program and abstracts">>

\* The code group of ABSTRACT_START_RE at the head of s:
\* (?:[A-Z]{1,3}-)?(?:[A-Z]{1,2})?\d{2,3}   (the bare \d{2,3} alternative is the
\* case with both optional groups absent).  Returns the length of the code, 0 if none.
CodeLen(s) ==
    LET AllIn(lo, hi, P(_)) == \A i \in lo..hi : P(At(s, i))
        shapes == {<<p, l, d>> \in (0..3) \X (0..2) \X (2..3) :
                      LET dash == IF p = 0 THEN 0 ELSE 1
                          n == p + dash + l + d
                      IN  /\ n + 1 <= Len(s)
                          /\ AllIn(1, p, IsUpper)
                          /\ (p > 0 => At(s, p + 1) = "-")
                          /\ AllIn(p + dash + 1, p + dash + l, IsUpper)
                          /\ AllIn(p + dash + l + 1, n, IsDigit)
                          /\ At(s, n + 1) = "."}
    IN  IF shapes = {} THEN 0
        ELSE LET sh == CHOOSE x \in shapes : TRUE
             IN  sh[1] + (IF sh[1] = 0 THEN 0 ELSE 1) + sh[2] + sh[3]

\* the match of ABSTRACT_START_RE on the stripped line s whose code is n long: `rest`
\* follows the "." and `title` is the (.+) group after the \s+
match_of(s, n, rest, title) ==
    IF n > 0 /\ rest # "" /\ IsSpace(At(rest, 1)) /\ title # "" /\ ~Contains(title, "\n")
    THEN [matched |-> TRUE, code |-> SubSeq(s, 1, n), title |-> title]
    ELSE [matched |-> FALSE, code |-> "", title |-> ""]

code_match(s, n) == match_of(s, n, SubSeq(s, n + 2, Len(s)), lstrip(SubSeq(s, n + 2, Len(s))))

\* ABSTRACT_START_RE.match(line.strip()): [matched, code, title]
abstract_match(line) == code_match(strip(line), CodeLen(strip(line)))

is_abstract_start(line) == abstract_match(line).matched

\* \b at the gap after position p (0..Len(s)) of s
WordBoundary(s, p) ==
    (p >= 1 /\ IsWordChar(At(s, p))) # (p < Len(s) /\ IsWordChar(At(s, p + 1)))

\* AUTHOR_CREDENTIAL_RE.search(line), case-insensitively
credential_search(line) ==
    \E k \in DOMAIN AUTHOR_CREDENTIALS :
        \E i \in 0..(Len(line) - Len(AUTHOR_CREDENTIALS[k])) :
            /\ lower(SubSeq(line, i + 1, i + Len(AUTHOR_CREDENTIALS[k])))
                   = lower(AUTHOR_CREDENTIALS[k])
            /\ WordBoundary(line, i)
            /\ WordBoundary(line, i + Len(AUTHOR_CREDENTIALS[k]))

is_author_like(line) ==
    \/ credential_search(line)
    \/ count(line, ",") >= 3
    \/ (Contains(line, ";") /\ count(line, ",") >= 1)

\* any(marker in normalized for marker in markers)
any_marker_in(normalized, markers) ==
    \E k \in DOMAIN markers : Contains(normalized, markers[k])

is_institution_like(line) == any_marker_in(normalize_text(line), INSTITUTION_MARKERS)

is_footer_like(line) == any_marker_in(normalize_text(line), FOOTER_MARKERS)

\* any(char.isalpha() for char in word)
has_alpha(word) == \E j \in 1..Len(word) : IsAlpha(At(word, j))

\* the word-count tests of is_title_like on line.split()
title_shaped(words) ==
    IF Len(words) < 4 \/ Len(words) > 24 THEN FALSE
    ELSE Cardinality({i \in DOMAIN words : has_alpha(words[i])})
             >= (IF Len(words) - 2 > 3 THEN Len(words) - 2 ELSE 3)

is_title_like(line) ==
    IF is_abstract_start(line) \/ is_author_like(line) \/ is_institution_like(line)
           \/ is_footer_like(line)
    THEN FALSE
    ELSE title_shaped(split(line))

\* match.group(2).strip() if there is a match, the stripped line otherwise
title_group(line, match) == IF match.matched THEN strip(match.title) ELSE strip(line)

strip_abstract_code(line) == title_group(line, abstract_match(line))

(***************************************************************************)
(* Scores.  Python computes them in binary floating point; the model keeps *)
(* them as exact fractions <<numerator, denominator>> in lowest terms, so  *)
(* equal scores are equal values and thresholds are compared exactly.      *)
(***************************************************************************)
RECURSIVE GCD(_, _)
GCD(a, b) == IF b = 0 THEN a ELSE GCD(b, a % b)

Frac(n, d) == <<n \div GCD(n, d), d \div GCD(n, d)>>
FracAdd(p, q) == Frac(p[1] * q[2] + q[1] * p[2], p[2] * q[2])
FracMul(p, q) == Frac(p[1] * q[1], p[2] * q[2])
FracGE(p, q) == p[1] * q[2] >= q[1] * p[2]
FracGT(p, q) == p[1] * q[2] > q[1] * p[2]
FracMax(p, q) == IF FracGT(q, p) THEN q ELSE p
Zero == <<0, 1>>
One == <<1, 1>>
\* round(score, 4) and f"{score:.4f}": the score in ten-thousandths, half rounded to even
Round4(p) ==
    LET scaled == 10000 * p[1]
        lo == scaled \div p[2]
        twice == 2 * (scaled % p[2])
    IN  IF twice > p[2] \/ (twice = p[2] /\ lo % 2 = 1) THEN lo + 1 ELSE lo

\* difflib.SequenceMatcher.find_longest_match on whole strings (no junk; the
\* autojunk heuristic only applies to a second string of 200 or more characters):
\* the longest common substring, earliest in a, then earliest in b: <<i, j, k>>, 1-based
Subs(s, k) == {SubSeq(s, i, i + k - 1) : i \in 1..(Len(s) - k + 1)}

Least(numbers) == CHOOSE n \in numbers : \A other \in numbers : n <= other
Greatest(numbers) == CHOOSE n \in numbers : \A other \in numbers : other <= n

\* the lengths of the common substrings of a and b
common_sizes(a, b) ==
    {k \in 1..(IF Len(a) < Len(b) THEN Len(a) ELSE Len(b)) : Subs(a, k) \cap Subs(b, k) # {}}

\* the earliest start in b of the k characters of a at i
first_in_b(a, b, i, k) ==
    Least({j \in 1..(Len(b) - k + 1) : SubSeq(b, j, j + k - 1) = SubSeq(a, i, i + k - 1)})

\* the earliest start in a of a k-character substring that b has too
first_in_a(a, b, k) ==
    Least({i \in 1..(Len(a) - k + 1) : SubSeq(a, i, i + k - 1) \in Subs(b, k)})

match_from(a, b, i, k) == <<i, first_in_b(a, b, i, k), k>>

match_of_size(a, b, k) == match_from(a, b, first_in_a(a, b, k), k)

longest_among(a, b, sizes) ==
    IF sizes = {} THEN <<1, 1, 0>> ELSE match_of_size(a, b, Greatest(sizes))

find_longest_match(a, b) == longest_among(a, b, common_sizes(a, b))

\* sum of the sizes of SequenceMatcher.get_matching_blocks(): the longest match m, then
\* the matches to its left and to its right
RECURSIVE matching_size(_, _)
matching_around(a, b, m) ==
    IF m[3] = 0 THEN 0
    ELSE m[3]
         + matching_size(SubSeq(a, 1, m[1] - 1), SubSeq(b, 1, m[2] - 1))
         + matching_size(SubSeq(a, m[1] + m[3], Len(a)), SubSeq(b, m[2] + m[3], Len(b)))

matching_size(a, b) ==
    IF a = "" \/ b = "" THEN 0 ELSE matching_around(a, b, find_longest_match(a, b))

\* SequenceMatcher(None, a, b).ratio()
sequence_ratio(a, b) ==
    IF Len(a) + Len(b) = 0 THEN One ELSE Frac(2 * matching_size(a, b), Len(a) + Len(b))

\* normalize_text(chunk.split(",", 1)[0].strip()) of a stripped chunk
surname_of(chunk) == normalize_text(strip(before_first(strip(chunk), ",")))

\* the loop of parse_reference_surnames from chunk k on
RECURSIVE collect_surnames(_, _, _)
collect_surnames(chunks, k, surnames) ==
    IF k > Len(chunks) THEN surnames
    ELSE IF /\ strip(chunks[k]) # ""
            /\ surname_of(chunks[k]) # ""
            /\ surname_of(chunks[k]) \notin Range(surnames)
    THEN collect_surnames(chunks, k + 1, Append(surnames, surname_of(chunks[k])))
    ELSE collect_surnames(chunks, k + 1, surnames)

\* a cut of the surname list after seven entries
first_seven(surnames) == SubSeq(surnames, 1, IF Len(surnames) < 7 THEN Len(surnames) ELSE 7)

\* surnames[:6]
first_six(surnames) == SubSeq(surnames, 1, IF Len(surnames) < 6 THEN Len(surnames) ELSE 6)

parse_reference_surnames(authors) ==
    first_six(collect_surnames(split_on(authors, ";"), 1, << >>))

\* overlap of score_title before the containment bonus
token_overlap(ref_tokens, block_tokens) ==
    Frac(Cardinality(ref_tokens \cap block_tokens),
         IF Cardinality(ref_tokens) > 1 THEN Cardinality(ref_tokens) ELSE 1)

\* overlap = max(overlap, 0.95) when one normalized title contains the other
containment_overlap(ref_norm, block_norm, overlap) ==
    IF Contains(block_norm, ref_norm) \/ Contains(ref_norm, block_norm)
    THEN FracMax(overlap, Frac(95, 100))
    ELSE overlap

\* max(sequence, 0.65 * sequence + 0.35 * overlap)
blended_title_score(sequence, overlap) ==
    FracMax(sequence,
            FracAdd(FracMul(Frac(65, 100), sequence), FracMul(Frac(35, 100), overlap)))

\* a title score without the test for an empty title
title_similarity_unguarded(ref_norm, block_norm) ==
    IF ref_norm = block_norm THEN One
    ELSE blended_title_score(
             sequence_ratio(ref_norm, block_norm),
             containment_overlap(ref_norm, block_norm,
                                 token_overlap(token_set(ref_norm, 4),
                                               token_set(block_norm, 4))))

\* score_title on the two normalized titles
title_similarity(ref_norm, block_norm) ==
    IF ref_norm = "" \/ block_norm = "" THEN Zero
    ELSE IF ref_norm = block_norm THEN One
    ELSE blended_title_score(
             sequence_ratio(ref_norm, block_norm),
             containment_overlap(ref_norm, block_norm,
                                 token_overlap(token_set(ref_norm, 4),
                                               token_set(block_norm, 4))))

\* a title score that compares the titles as they are written
score_title_as_written(reference_title, block_title) ==
    title_similarity(reference_title, block_title)

score_title(reference_title, block_title) ==
    title_similarity(normalize_text(reference_title), normalize_text(block_title))

\* all(token in block_tokens for token in surname_tokens), on a non-empty token list
tokens_within(surname_tokens, block_tokens) ==
    surname_tokens # {} /\ surname_tokens \subseteq block_tokens

\* a match by substring only
surname_matches_as_substring(surname, normalized_block, block_tokens) ==
    Contains(normalized_block, surname)

\* the two ways a surname matches the block
surname_matches(surname, normalized_block, block_tokens) ==
    \/ Contains(normalized_block, surname)
    \/ tokens_within({tok \in Range(split(surname)) : Len(tok) >= 3}, block_tokens)

\* matches / len(surnames), 0.0 without surnames
author_ratio(surnames, normalized_block, block_tokens) ==
    IF surnames = << >> THEN Zero
    ELSE Frac(Cardinality({k \in DOMAIN surnames :
                              surname_matches(surnames[k], normalized_block, block_tokens)}),
              Len(surnames))

score_authors(reference_authors, block_text) ==
    author_ratio(parse_reference_surnames(reference_authors), normalize_text(block_text),
                 token_set(block_text, 3))

(***************************************************************************)
(* Input catalogue: the page texts, page lists and document records the    *)
(* model draws its inputs from.                                            *)
(***************************************************************************)
\* text repeated n times, one copy per line
RECURSIVE RepeatLines(_, _)
RepeatLines(line, n) == IF n = 0 THEN "" ELSE line \o "\n" \o RepeatLines(line, n - 1)

\* raw page texts as the extractor leaves them: lines separated by "\n", stray whitespace
BaseTexts ==
    {"",
     "12. Stiff GAD\nSmith J; Doe A, RN\ntext",
     "P-07.  GAD \nSmith J, MD",
     "07. GAD\n\n Doe A, MD",
     "A13. Gait\nClinic, USA",
     "B22. GAD\ncase series of gait",
     "Annals of Neurology\n12. stiff-gad",
     "Poster\tSessions\ntext"}

\* pages that bring a line count up to a detector threshold
START_LINE == "12. Stiff GAD"
TITLE_LINE == "case series of gait"
AUTHOR_LINE == "Smith J, MD"
CountTexts ==
    {RepeatLines(START_LINE, n) : n \in {7, 8, 10}}
        \cup {RepeatLines(TITLE_LINE, n) : n \in {19, 20}}
        \cup {RepeatLines(AUTHOR_LINE, n) : n \in {9, 10}}

PageTexts == BaseTexts \cup CountTexts

\* the page_index values of the pages of a record, in list order
PageLayouts == {<< >>, <<0>>, <<5>>, <<40>>, <<0, 1>>, <<4, 40>>, <<5, 0>>}

PagesOf(layout, texts) ==
    [k \in DOMAIN layout |-> [page_index |-> layout[k], text |-> texts[k]]]

\* every page text alone; every two base texts; a page of title-like lines with a page
\* of author-like lines
PageLists ==
    UNION {{PagesOf(layout, texts) :
               texts \in [DOMAIN layout -> IF Len(layout) = 1 THEN PageTexts ELSE BaseTexts]} :
              layout \in PageLayouts}
        \cup {PagesOf(layout, <<RepeatLines(TITLE_LINE, t), RepeatLines(AUTHOR_LINE, a)>>) :
                 layout \in {<<0, 1>>, <<4, 40>>}, t \in {19, 20}, a \in {9, 10}}

PageCounts == {39, 40}
SourceFilenames == {"101_gad.pdf", "Annual-Meeting.pdf"}

\* a parsed text-extraction JSON record; "" and 0 stand for an absent or empty value
\* (every read of the record is `record.get(key) or default`)
Record(paper_id, source_filename, n_pages, pages) ==
    [json_ok |-> TRUE, has_pages |-> TRUE, paper_id |-> paper_id,
     source_filename |-> source_filename, source_sha256 |-> "sha",
     n_pages |-> n_pages, pages |-> pages]

\* a record without the "pages" key: `record.get("pages")` is None
MissingPagesRecord ==
    [Record("", "Annual-Meeting.pdf", 40, << >>) EXCEPT !.has_pages = FALSE]

\* a file whose content json.loads rejects
CorruptRecord == [Record("", "", 0, << >>) EXCEPT !.json_ok = FALSE]

Records ==
    {Record("", f, n, pl) : f \in SourceFilenames, n \in PageCounts, pl \in PageLists}

\* Cases for the scorer and the marker counter: titles that equal a reference title only
\* after normalization, a title of punctuation alone, previews with the words of a
\* multi-word surname out of order, marker phrases in file names and page texts, a
\* block of fourteen lines with more than four title lines and a footer line, and a
\* block with a close title and no author next to one with a distant title and the author,
\* a block whose abstract-start line is itself footer-like, and a block that continues
\* on a page of smaller page_index listed after its own.
ACCENTED_TITLE_TEXT == "12. Stiff-Pérson GAD!\nSmith J; Doe A, RN\ntext"
PUNCTUATION_TITLE_TEXT == "13. ---\nSmith J, MD"
SCATTERED_SURNAME_TEXT == "14. Gait\nBerg A van, Wu B"
MARKER_TEXT == "Poster Presentations\n15. Gait in GAD\ntext"
OUTSCORED_TITLE_TEXT == "31. Gait and arm\n32. GAD in\nBerg A, MD"
FOOTER_TITLE_TEXT == "41. Annals of Neurology"
LONG_BLOCK_TEXT ==
    "21. Tics\nof\nthe\nleg\nand\narm\nSmith J, MD\nAnnals of Neurology\na\nb\nc\nd\ne\nf"

CaseTexts ==
    {ACCENTED_TITLE_TEXT, PUNCTUATION_TITLE_TEXT, SCATTERED_SURNAME_TEXT, MARKER_TEXT,
     LONG_BLOCK_TEXT, OUTSCORED_TITLE_TEXT, FOOTER_TITLE_TEXT}

CasePageLists ==
    {PagesOf(<<0>>, <<text>>) : text \in CaseTexts}
        \cup {PagesOf(<<5>>, <<MARKER_TEXT>>),
              PagesOf(<<0, 1>>, <<ACCENTED_TITLE_TEXT, SCATTERED_SURNAME_TEXT>>),
              PagesOf(<<0, 1>>, <<PUNCTUATION_TITLE_TEXT, SCATTERED_SURNAME_TEXT>>),
              PagesOf(<<5, 0>>, <<ACCENTED_TITLE_TEXT, MARKER_TEXT>>)}

CaseFilenames == {"101_gad.pdf", "Annual-Meeting.pdf", "Program & Abstracts.pdf"}

CaseRecords == {Record("", f, 40, pl) : f \in CaseFilenames, pl \in CasePageLists}

(***************************************************************************)
(* Line flattener.                                                         *)
(***************************************************************************)
\* the kept lines of one page text: splitlines, whitespace collapsed, empty lines dropped,
\* each with its 0-based position among the physical lines
text_lines(text) ==
    LET raw == splitlines(text)
        Collapsed(k) == join(" ", split(raw[k]))
        kept == SelectSeq([k \in DOMAIN raw |-> k], LAMBDA k : Collapsed(k) # "")
    IN  [n \in DOMAIN kept |-> [line_index |-> kept[n] - 1, text |-> Collapsed(kept[n])]]

\* text_lines of every page text of the catalogue, computed once
TextLines == [text \in PageTexts \cup CaseTexts |-> text_lines(text)]

\* the LineRefs of the kept lines of the page with this page_index
line_refs_of(page_index, kept) ==
    [n \in DOMAIN kept |->
        [page_index |-> page_index, line_index |-> kept[n].line_index, text |-> kept[n].text]]

\* the LineRefs of one page
page_lines(page) ==
    line_refs_of(page.page_index,
                 IF page.text \in DOMAIN TextLines THEN TextLines[page.text]
                 ELSE text_lines(page.text))

RECURSIVE concat(_)
concat(seqs) == IF seqs = << >> THEN << >> ELSE Head(seqs) \o concat(Tail(seqs))

\* `record.get("pages") or []`: a record without a page list flattens to no lines
lines_of_pages(pages) == concat([k \in DOMAIN pages |-> page_lines(pages[k])])

flatten_lines(record) == lines_of_pages(IF record.has_pages THEN record.pages ELSE << >>)

\* flatten_lines of every page list of the catalogue, computed once
FlattenedLines ==
    [pages \in PageLists \cup CasePageLists |-> flatten_lines(Record("", "", 0, pages))]

lines_of(record) ==
    IF record.has_pages THEN FlattenedLines[record.pages] ELSE flatten_lines(record)

(***************************************************************************)
(* The classifier results of every line of the catalogue, computed once.   *)
(***************************************************************************)
line_facts(text) ==
    [abstract_start |-> is_abstract_start(text),
     code |-> abstract_match(text).code,
     stripped |-> strip_abstract_code(text),
     author_like |-> is_author_like(text),
     institution_like |-> is_institution_like(text),
     footer_like |-> is_footer_like(text),
     title_like |-> is_title_like(text)]

LineTexts == UNION {{line.text : line \in Range(TextLines[t])} : t \in DOMAIN TextLines}

LineFacts == [text \in LineTexts |-> line_facts(text)]

\* the classifier results of a line, looked up when the line is in the catalogue
Facts(text) == IF text \in LineTexts THEN LineFacts[text] ELSE line_facts(text)

(***************************************************************************)
(* Proceedings detector.                                                   *)
(***************************************************************************)
\* " ".join(line.text for line in lines if line.page_index < 5)
first_pages_text(lines) ==
    LET first_pages == SelectSeq(lines, LAMBDA line : line.page_index < 5)
    IN  join(" ", [k \in DOMAIN first_pages |-> first_pages[k].text])

\* a count that looks at the file name only
count_program_markers_in_filename(source_filename, first_pages) ==
    Cardinality({k \in DOMAIN PROGRAM_MARKERS :
                    Contains(normalize_text(source_filename), PROGRAM_MARKERS[k])})

\* the number of program markers in the file name joined with the normalized first pages
count_program_markers(source_filename, first_pages) ==
    LET normalized_first_pages == normalize_text(first_pages)
        marker_text == join(" ", <<source_filename, normalized_first_pages>>)
        normalized_marker_text == normalize_text(marker_text)
    IN  Cardinality({k \in DOMAIN PROGRAM_MARKERS :
                        Contains(normalized_marker_text, PROGRAM_MARKERS[k])})

\* count_program_markers of every file name and first-pages text of the catalogue,
\* computed once
ProgramMarkerCounts ==
    [key \in {<<f, first_pages_text(FlattenedLines[pages])>> :
                  f \in SourceFilenames, pages \in PageLists}
                \cup {<<f, first_pages_text(FlattenedLines[pages])>> :
                          f \in CaseFilenames, pages \in CasePageLists}
        |-> count_program_markers(key[1], key[2])]

program_markers_of(source_filename, first_pages) ==
    IF <<source_filename, first_pages>> \in DOMAIN ProgramMarkerCounts
    THEN ProgramMarkerCounts[<<source_filename, first_pages>>]
    ELSE count_program_markers(source_filename, first_pages)

\* a detector whose page-count prerequisite is off by one
proceedings_detected_above_40(n_pages, abstract_starts, title_like, author_like, markers) ==
    n_pages > 40
        /\ (\/ abstract_starts >= 8
            \/ (title_like >= 20 /\ author_like >= 10)
            \/ markers > 0)

\* the decision rule of proceedings_signals
proceedings_detected(n_pages, abstract_starts, title_like, author_like, markers) ==
    n_pages >= 40
        /\ (\/ abstract_starts >= 8
            \/ (title_like >= 20 /\ author_like >= 10)
            \/ markers > 0)

\* the dict proceedings_signals returns, from its counts
signal_bundle(n_pages, abstract_starts, title_like, author_like, markers) ==
    [n_pages |-> n_pages,
     abstract_block_count |-> abstract_starts,
     title_like_line_count |-> title_like,
     author_like_line_count |-> author_like,
     program_marker_count |-> markers,
     proceedings_detected |->
         proceedings_detected(n_pages, abstract_starts, title_like, author_like, markers)]

\* a count over the lines of the whole document
count_all_lines(lines, classifier) ==
    Len(SelectSeq(lines, LAMBDA line : Facts(line.text)[classifier]))

\* the number of lines of the first window (page_index < 40) a classifier accepts
count_first_window(lines, classifier) ==
    Len(SelectSeq(lines, LAMBDA line : line.page_index < 40 /\ Facts(line.text)[classifier]))

proceedings_signals(record, lines) ==
    signal_bundle(record.n_pages,
                  count_first_window(lines, "abstract_start"),
                  count_first_window(lines, "title_like"),
                  count_first_window(lines, "author_like"),
                  program_markers_of(record.source_filename, first_pages_text(lines)))

(***************************************************************************)
(* Abstract segmenter.  Indices into the line list are 0-based and ranges  *)
(* half-open, as in the code.                                              *)
(***************************************************************************)
\* lines[lo:hi]
Slice(lines, lo, hi) == SubSeq(lines, lo + 1, IF hi < Len(lines) THEN hi ELSE Len(lines))

\* a segmenter that runs every block to the end of the document
end_index_at_document_end(positions, offset, line_count) == line_count

\* end_index of the block that starts at positions[offset]: the next abstract start,
\* or the end of the line list
end_index_of(positions, offset, line_count) ==
    IF offset + 1 <= Len(positions) THEN positions[offset + 1] ELSE line_count

\* start positions taken from the detector's window only
start_indices_in_window(lines) ==
    SelectSeq([k \in DOMAIN lines |-> k - 1],
              LAMBDA index : lines[index + 1].page_index < 40
                                 /\ Facts(lines[index + 1].text).abstract_start)

\* start_indices: the 0-based positions of the abstract-start lines
start_indices(lines) ==
    SelectSeq([k \in DOMAIN lines |-> k - 1],
              LAMBDA index : Facts(lines[index + 1].text).abstract_start)

\* the tests that break the title loop
ends_title(facts) ==
    facts.abstract_start \/ facts.author_like \/ facts.institution_like \/ facts.footer_like

\* the number of candidates before the first of `stops`, all `available` if there is none
taken_before(stops, available) ==
    IF stops = {} THEN available
    ELSE (CHOOSE k \in stops : \A other \in stops : k <= other) - 1

\* a title loop without its break tests
title_lines_taken_unchecked(candidates) == Len(candidates)

\* the number of lines of block_lines[1:5] appended to the title before the loop breaks
title_lines_taken(candidates) ==
    taken_before({k \in DOMAIN candidates : ends_title(Facts(candidates[k].text))},
                 Len(candidates))

\* [part.strip() for part in parts if part.strip()]
stripped_parts(parts) ==
    SelectSeq([k \in DOMAIN parts |-> strip(parts[k])], LAMBDA part : part # "")

texts_of(lines) == [k \in DOMAIN lines |-> lines[k].text]

\* the AbstractBlock of block_lines, of which `consumed` lines went into the title
abstract_block(block_lines, start_index, end_index, consumed) ==
    [code |-> Facts(block_lines[1].text).code,
     start_index |-> start_index,
     end_index |-> end_index,
     start_page_index |-> block_lines[1].page_index,
     end_page_index |-> block_lines[Len(block_lines)].page_index,
     title_text |-> join(" ", stripped_parts(<<Facts(block_lines[1].text).stripped>>
                                                 \o texts_of(Slice(block_lines, 1, consumed)))),
     header_text |-> join(" ", texts_of(Slice(block_lines, 0, consumed + 4))),
     preview_text |->
         join(" ", texts_of(SelectSeq(Slice(block_lines, 0, 12),
                                      LAMBDA line : ~Facts(line.text).footer_like))),
     line_refs |-> block_lines,
     title_score |-> Zero,
     author_score |-> Zero,
     match_score |-> Zero]

\* one pass of the loop body of extract_blocks, from the slicing of block_lines on
block_of(block_lines, start_index, end_index) ==
    abstract_block(block_lines, start_index, end_index,
                   1 + title_lines_taken(Slice(block_lines, 1, 5)))

blocks_from(lines, positions) ==
    [offset \in DOMAIN positions |->
        block_of(Slice(lines, positions[offset], end_index_of(positions, offset, Len(lines))),
                 positions[offset], end_index_of(positions, offset, Len(lines)))]

extract_blocks(lines) == blocks_from(lines, start_indices(lines))

\* extract_blocks of every page list of the catalogue, computed once
SegmentedBlocks ==
    [pages \in PageLists \cup CasePageLists |-> extract_blocks(FlattenedLines[pages])]

\* extract_blocks(flatten_lines(record))
blocks_of(record) == SegmentedBlocks[record.pages]

(***************************************************************************)
(* Reference metadata.                                                     *)
(***************************************************************************)
\* one row of the reference export CSV; "" stands for an absent or empty cell
ReferenceRow(covidence, title, authors) ==
    [Covidence |-> covidence, Title |-> title, Authors |-> authors]

\* `reference_rows.get(paper_id, {})` when the lookup misses
NoReference == ReferenceRow("", "", "")

ReferenceCsvs ==
    {<< >>,
     <<ReferenceRow("101", "Stiff GAD", "Smith, J.; Doe, A.")>>,
     <<ReferenceRow("101", "", "Smith, J."), ReferenceRow("", "Stiff GAD", "")>>,
     <<ReferenceRow("101", "Gait", ""), ReferenceRow(" 101 ", " Stiff-GAD ", "Doe, A.")>>}

\* references for the scorer cases: more than six authors with a repeated surname and
\* an empty entry; no title and a surname with a two-letter word; a multi-word surname;
\* a title close to one block and an author named in another; a title that is a
\* journal running head
LONG_AUTHOR_LIST ==
    "Smith, J.; ; smith, K.; Doe, A.; Roe, B; Poe; Lee, C.; Kim, D.; Ray, E."

CaseReferenceCsvs ==
    {<<ReferenceRow("101", "stiff person gad", LONG_AUTHOR_LIST)>>,
     <<ReferenceRow("101", "", "van Li, X.")>>,
     <<ReferenceRow("101", "Gait disorders", "van Berg, A.; Smith, J.")>>,
     <<ReferenceRow("101", "Gait and tics", "Berg, A.")>>,
     <<ReferenceRow("101", "Annals of Neurology", "")>>}

\* load_reference_rows: rows keyed by their stripped Covidence id, rows without one
\* skipped, a later row replacing an earlier one with the same id
load_reference_rows(csv) ==
    LET keyed == {k \in DOMAIN csv : strip(csv[k].Covidence) # ""}
        ids == {strip(csv[k].Covidence) : k \in keyed}
        Last(id) == CHOOSE k \in keyed :
                        /\ strip(csv[k].Covidence) = id
                        /\ \A other \in keyed : strip(csv[other].Covidence) = id => other <= k
    IN  [id \in ids |-> csv[Last(id)]]

lookup_reference(reference_rows, paper_id) ==
    IF paper_id \in DOMAIN reference_rows THEN reference_rows[paper_id] ELSE NoReference

(***************************************************************************)
(* Candidate scorer.                                                       *)
(***************************************************************************)
CatalogueReferences == UNION {Range(csv) : csv \in ReferenceCsvs} \cup {NoReference}

\* a loop body with the two weights exchanged
with_scores_author_weighted(block, title_score, author_score) ==
    [block EXCEPT !.title_score = title_score,
                  !.author_score = author_score,
                  !.match_score = FracAdd(FracMul(Frac(25, 100), title_score),
                                          FracMul(Frac(75, 100), author_score))]

\* the body of the loop of best_matching_block: the block with its three scores set
with_scores(block, title_score, author_score) ==
    [block EXCEPT !.title_score = title_score,
                  !.author_score = author_score,
                  !.match_score = FracAdd(FracMul(Frac(75, 100), title_score),
                                          FracMul(Frac(25, 100), author_score))]

score_block(block, reference_title, reference_authors) ==
    with_scores(block, score_title(reference_title, block.title_text),
                score_authors(reference_authors, block.preview_text))

scored_blocks(blocks, reference_title, reference_authors) ==
    [k \in DOMAIN blocks |-> score_block(blocks[k], reference_title, reference_authors)]

\* a comparison that lets a later block win an exact tie
replaces_best_on_tie(candidate, best) == FracGE(candidate.match_score, best.match_score)

\* is `candidate` taken as the new best over the current best
replaces_best(candidate, best) == FracGT(candidate.match_score, best.match_score)

\* a selection that never compares: the first block is returned
best_matching_block_first(blocks, reference_title, reference_authors) ==
    IF blocks = << >> THEN 0 ELSE 1

\* a selection that keeps the last block, whatever its score
best_position_last(scored) == Len(scored)

\* the position of the block the loop of best_matching_block ends with, 0 for None
best_position(scored) ==
    LET RECURSIVE Loop(_, _)
        Loop(k, best) ==
            IF k > Len(scored) THEN best
            ELSE IF best = 0 \/ replaces_best(scored[k], scored[best]) THEN Loop(k + 1, k)
            ELSE Loop(k + 1, best)
    IN  Loop(1, 0)

\* a selection that never compares: the last block is returned
best_matching_block_last(blocks, reference_title, reference_authors) == Len(blocks)

\* best_matching_block: the position in `blocks` of the returned block, 0 for None
best_matching_block(blocks, reference_title, reference_authors) ==
    best_position(scored_blocks(blocks, reference_title, reference_authors))

\* the scored blocks and the best block of every page list of the catalogue against
\* every reference of the catalogue, computed once
ReferencePairs == {<<strip(row.Title), strip(row.Authors)>> : row \in CatalogueReferences}

CaseReferencePairs ==
    {<<strip(row.Title), strip(row.Authors)>> :
        row \in UNION {Range(csv) : csv \in CaseReferenceCsvs} \cup {NoReference}}

\* the page lists and references that meet in one of the catalogues
ScoredPairs ==
    {<<pages, pair>> : pages \in PageLists, pair \in ReferencePairs}
        \cup {<<pages, pair>> : pages \in CasePageLists, pair \in CaseReferencePairs}

ScoredBlocks ==
    [key \in ScoredPairs |->
        scored_blocks(SegmentedBlocks[key[1]], key[2][1], key[2][2])]

BestBlocks ==
    [key \in ScoredPairs |->
        best_matching_block(SegmentedBlocks[key[1]], key[2][1], key[2][2])]

\* the blocks of the record as best_matching_block leaves them, and the position of
\* the block it returns
scored_of(record, reference_title, reference_authors) ==
    ScoredBlocks[<<record.pages, <<reference_title, reference_authors>>>>]

best_of(record, reference_title, reference_authors) ==
    BestBlocks[<<record.pages, <<reference_title, reference_authors>>>>]

(***************************************************************************)
(* Trimmed artifact builder and decision record.                           *)
(***************************************************************************)
\* sorted(grouped.items()): the distinct page indexes in increasing order
RECURSIVE sorted(_)
sorted(numbers) ==
    IF numbers = {} THEN << >>
    ELSE LET least == CHOOSE n \in numbers : \A other \in numbers : n <= other
         IN  <<least>> \o sorted(numbers \ {least})

\* the lines of `kept` grouped by page, pages in increasing order, empty pages dropped
pages_of_lines(kept, page_indexes) ==
    LET Group(page_index) == SelectSeq(kept, LAMBDA line_ref : line_ref.page_index = page_index)
        Text(page_index) == strip(join("\n", texts_of(Group(page_index))))
    IN  SelectSeq([k \in DOMAIN page_indexes |->
                      [page_index |-> page_indexes[k], text |-> Text(page_indexes[k])]],
                  LAMBDA page : page.text # "")

\* the page indexes in the order the kept lines come in
page_indexes_in_line_order(kept) ==
    LET firsts == SelectSeq([k \in DOMAIN kept |-> k],
                            LAMBDA k : \A j \in 1..(k - 1) :
                                           kept[j].page_index # kept[k].page_index)
    IN  [n \in DOMAIN firsts |-> kept[firsts[n]].page_index]

page_indexes_of(kept) == sorted({kept[k].page_index : k \in DOMAIN kept})

\* a grouping that puts every kept line on the page of the first one
grouped_pages_on_first_page(kept) ==
    IF kept = << >> THEN << >>
    ELSE <<[page_index |-> kept[1].page_index, text |-> strip(join("\n", texts_of(kept)))]>>

grouped_pages(kept) == pages_of_lines(kept, page_indexes_of(kept))

\* a trimming that keeps the footer-like lines of the block
trim_pages_keeping_footers(block) == grouped_pages(block.line_refs)

trim_pages_from_block(block) ==
    grouped_pages(SelectSeq(block.line_refs,
                            LAMBDA line_ref : ~Facts(line_ref.text).footer_like))

INPUT_DIR == "data/extraction_json/text"
OUTPUT_DIR == "data/extraction_json/text_trimmed"

\* input_dir / f"{stem}.json" and output_dir / f"{paper_id}.json"
json_path(dir, name) == dir \o "/" \o name \o ".json"

\* relative_to_repo: both directories lie under the repository root, so the path
\* relative to the root is the path itself; None gives ""
relative_to_repo(path) == path

record_paper_id(source_record, stem) ==
    IF source_record.paper_id # "" THEN source_record.paper_id ELSE stem

\* the dict build_trimmed_record returns, around the pages it trimmed
trimmed_record_of(source_record, stem, block, reference_row, now, pages) ==
    [paper_id |-> record_paper_id(source_record, stem),
     source_filename |-> source_record.source_filename,
     source_sha256 |-> source_record.source_sha256,
     source_text_json_path |-> relative_to_repo(json_path(INPUT_DIR, stem)),
     trim_status |-> "trimmed_auto",
     trim_method |-> "fuzzy_title_author_block_match",
     proceedings_detected |-> TRUE,
     title |-> strip(reference_row.Title),
     authors |-> strip(reference_row.Authors),
     matched_block_code |-> block.code,
     matched_block_title |-> block.title_text,
     match_score |-> Round4(block.match_score),
     title_score |-> Round4(block.title_score),
     author_score |-> Round4(block.author_score),
     start_page_index |-> block.start_page_index,
     end_page_index |-> block.end_page_index,
     original_n_pages |-> source_record.n_pages,
     n_pages |-> Len(pages),
     page_char_counts |-> [k \in DOMAIN pages |-> Len(pages[k].text)],
     trimmed_at_utc |-> now,
     pages |-> pages]

build_trimmed_record(source_record, stem, block, reference_row, now) ==
    trimmed_record_of(source_record, stem, block, reference_row, now,
                      trim_pages_from_block(block))

\* a row that records the block of a trimmed document only
decision_row_of_trimmed_block(paper_id, reference_row, source_record, stem, trimmed_path, signals, trim_status, trim_reason, block, now) ==
    [paper_id |-> paper_id,
     covidence_id |-> strip(IF reference_row.Covidence # "" THEN reference_row.Covidence
                            ELSE paper_id),
     title |-> strip(reference_row.Title),
     authors |-> strip(reference_row.Authors),
     source_filename |-> source_record.source_filename,
     source_text_json_path |-> relative_to_repo(json_path(INPUT_DIR, stem)),
     trimmed_text_json_path |-> IF trimmed_path # "" THEN relative_to_repo(trimmed_path) ELSE "",
     n_pages |-> signals.n_pages,
     abstract_block_count |-> signals.abstract_block_count,
     title_like_line_count |-> signals.title_like_line_count,
     author_like_line_count |-> signals.author_like_line_count,
     program_marker_count |-> signals.program_marker_count,
     proceedings_detected |-> bool_text(signals.proceedings_detected),
     trim_status |-> trim_status,
     trim_reason |-> trim_reason,
     trim_method |-> IF trim_status = "trimmed_auto" THEN "fuzzy_title_author_block_match"
                     ELSE "",
     matched_block_code |-> IF trimmed_path # "" THEN block[1].code ELSE "",
     matched_block_title |-> IF trimmed_path # "" THEN block[1].title_text ELSE "",
     title_score |-> IF trimmed_path # "" THEN <<Round4(block[1].title_score)>> ELSE << >>,
     author_score |-> IF trimmed_path # "" THEN <<Round4(block[1].author_score)>> ELSE << >>,
     match_score |-> IF trimmed_path # "" THEN <<Round4(block[1].match_score)>> ELSE << >>,
     start_page_index |-> IF trimmed_path # "" THEN <<block[1].start_page_index>> ELSE << >>,
     end_page_index |-> IF trimmed_path # "" THEN <<block[1].end_page_index>> ELSE << >>,
     trimmed_at_utc |-> IF trim_status = "trimmed_auto" THEN <<now>> ELSE << >>]

\* decision_row; `block` is a one-element sequence, empty for None; the cells a row
\* leaves empty are "" and the formatted numbers are kept as numbers
decision_row(paper_id, reference_row, source_record, stem, trimmed_path, signals, trim_status, trim_reason, block, now) ==
    [paper_id |-> paper_id,
     covidence_id |-> strip(IF reference_row.Covidence # "" THEN reference_row.Covidence
                            ELSE paper_id),
     title |-> strip(reference_row.Title),
     authors |-> strip(reference_row.Authors),
     source_filename |-> source_record.source_filename,
     source_text_json_path |-> relative_to_repo(json_path(INPUT_DIR, stem)),
     trimmed_text_json_path |-> IF trimmed_path # "" THEN relative_to_repo(trimmed_path) ELSE "",
     n_pages |-> signals.n_pages,
     abstract_block_count |-> signals.abstract_block_count,
     title_like_line_count |-> signals.title_like_line_count,
     author_like_line_count |-> signals.author_like_line_count,
     program_marker_count |-> signals.program_marker_count,
     proceedings_detected |-> bool_text(signals.proceedings_detected),
     trim_status |-> trim_status,
     trim_reason |-> trim_reason,
     trim_method |-> IF trim_status = "trimmed_auto" THEN "fuzzy_title_author_block_match"
                     ELSE "",
     matched_block_code |-> IF block # << >> THEN block[1].code ELSE "",
     matched_block_title |-> IF block # << >> THEN block[1].title_text ELSE "",
     title_score |-> IF block # << >> THEN <<Round4(block[1].title_score)>> ELSE << >>,
     author_score |-> IF block # << >> THEN <<Round4(block[1].author_score)>> ELSE << >>,
     match_score |-> IF block # << >> THEN <<Round4(block[1].match_score)>> ELSE << >>,
     start_page_index |-> IF block # << >> THEN <<block[1].start_page_index>> ELSE << >>,
     end_page_index |-> IF block # << >> THEN <<block[1].end_page_index>> ELSE << >>,
     trimmed_at_utc |-> IF trim_status = "trimmed_auto" THEN <<now>> ELSE << >>]

(***************************************************************************)
(* Decision engine: process_record for the file `stem`.json holding        *)
(* `record`.  The output directory maps a paper id to the artifact stored  *)
(* under <paper_id>.json, << >> when there is none.  `built_at` and        *)
(* `decided_at` are the two clock readings the call may take.              *)
(***************************************************************************)
\* a gate that demands both alternatives at once
high_confidence_both(block) ==
    /\ FracGE(block.title_score, Frac(70, 100))
    /\ /\ FracGE(block.title_score, Frac(55, 100))
       /\ FracGE(block.author_score, Frac(25, 100))
       /\ FracGE(block.match_score, Frac(60, 100))

high_confidence(block) ==
    \/ FracGE(block.title_score, Frac(70, 100))
    \/ /\ FracGE(block.title_score, Frac(55, 100))
       /\ FracGE(block.author_score, Frac(25, 100))
       /\ FracGE(block.match_score, Frac(60, 100))

REASON_NOT_NEEDED == "Document does not look like a large proceedings/program PDF."
REASON_NO_BLOCK == "No abstract block could be segmented from the proceedings text."
REASON_LOW_CONFIDENCE ==
    "Proceedings detected, but the best abstract block match is below the auto-trim confidence threshold."
REASON_TRIMMED ==
    "Proceedings detected and the target abstract block matched with sufficient confidence."

\* a cleanup that leaves an existing artifact in place
unlink_skipped(output_dir, paper_id) == output_dir

\* `if trimmed_path.exists(): trimmed_path.unlink()`
unlink_if_exists(output_dir, paper_id) ==
    IF output_dir[paper_id] # << >> THEN [output_dir EXCEPT ![paper_id] = << >>] ELSE output_dir

\* a write that appends to the file instead of replacing its content
write_text_append(output_dir, paper_id, trimmed_record) ==
    [output_dir EXCEPT ![paper_id] = @ \o <<trimmed_record>>]

\* a write that leaves an existing file as it is
write_text_if_absent(output_dir, paper_id, trimmed_record) ==
    IF output_dir[paper_id] # << >> THEN output_dir
    ELSE [output_dir EXCEPT ![paper_id] = <<trimmed_record>>]

\* trimmed_path.write_text(json.dumps(trimmed_record)): creates or overwrites the file
write_text(output_dir, paper_id, trimmed_record) ==
    [output_dir EXCEPT ![paper_id] = <<trimmed_record>>]

\* a branch order that looks at the page count alone before segmenting
terminal_status_by_page_count(signals, scored, best) ==
    IF signals.n_pages < 40 THEN "not_needed"
    ELSE IF best = 0 THEN "manual_review_required"
    ELSE IF ~high_confidence(scored[best]) THEN "manual_review_required"
    ELSE "trimmed_auto"

\* the branches of process_record, in order: the status it returns for the signals,
\* the scored blocks and the position of the best block (0 for None)
terminal_status(signals, scored, best) ==
    IF ~signals.proceedings_detected THEN "not_needed"
    ELSE IF best = 0 THEN "manual_review_required"
    ELSE IF ~high_confidence(scored[best]) THEN "manual_review_required"
    ELSE "trimmed_auto"

\* what a process_record call returns (row, output directory) together with its locals
call_result(row, out, paper_id, lines, segmented, blocks, best) ==
    [row |-> row, output_dir |-> out, paper_id |-> paper_id, lines |-> lines,
     segmented |-> segmented, blocks |-> blocks, best |-> best]

\* the four returns of process_record, chosen by the status the branches arrive at
branch_result(stem, record, paper_id, reference_row, lines, signals, scored, best, status, output_dir, built_at, decided_at) ==
    IF status = "not_needed"
    THEN call_result(decision_row(paper_id, reference_row, record, stem, "", signals, status,
                                  REASON_NOT_NEEDED, << >>, decided_at),
                     unlink_if_exists(output_dir, paper_id), paper_id, lines, FALSE, << >>, 0)
    ELSE IF status = "manual_review_required" /\ best = 0
    THEN call_result(decision_row(paper_id, reference_row, record, stem, "", signals, status,
                                  REASON_NO_BLOCK, << >>, decided_at),
                     unlink_if_exists(output_dir, paper_id), paper_id, lines, TRUE, scored, 0)
    ELSE IF status = "manual_review_required"
    THEN call_result(decision_row(paper_id, reference_row, record, stem, "", signals, status,
                                  REASON_LOW_CONFIDENCE, <<scored[best]>>, decided_at),
                     unlink_if_exists(output_dir, paper_id), paper_id, lines, TRUE, scored,
                     best)
    ELSE call_result(decision_row(paper_id, reference_row, record, stem,
                                  json_path(OUTPUT_DIR, paper_id), signals, status,
                                  REASON_TRIMMED, <<scored[best]>>, decided_at),
                     write_text(output_dir, paper_id,
                                build_trimmed_record(record, stem, scored[best], reference_row,
                                                     built_at)),
                     paper_id, lines, TRUE, scored, best)

\* a pipeline that reports a detected document without blocks as an error
segmented_result_failing_unmatched(stem, record, paper_id, reference_row, lines, signals, scored, best, output_dir, built_at, decided_at) ==
    IF signals.proceedings_detected /\ best = 0
    THEN call_result(decision_row(paper_id, reference_row, record, stem, "", signals, "error",
                                  REASON_NO_BLOCK, << >>, decided_at),
                     unlink_if_exists(output_dir, paper_id), paper_id, lines, TRUE, scored, 0)
    ELSE branch_result(stem, record, paper_id, reference_row, lines, signals, scored, best,
                       terminal_status(signals, scored, best), output_dir, built_at,
                       decided_at)

\* process_record from the detector's signals and the scorer's results on
segmented_result(stem, record, paper_id, reference_row, lines, signals, scored, best, output_dir, built_at, decided_at) ==
    branch_result(stem, record, paper_id, reference_row, lines, signals, scored, best,
                  terminal_status(signals, scored, best), output_dir, built_at, decided_at)

\* process_record from the reference row and the flattened lines on
flattened_result(stem, record, paper_id, reference_row, lines, output_dir, built_at, decided_at) ==
    segmented_result(stem, record, paper_id, reference_row, lines,
                     proceedings_signals(record, lines),
                     scored_of(record, strip(reference_row.Title), strip(reference_row.Authors)),
                     best_of(record, strip(reference_row.Title), strip(reference_row.Authors)),
                     output_dir, built_at, decided_at)

\* process_record from the paper id on
identified_result(stem, record, paper_id, reference_rows, output_dir, built_at, decided_at) ==
    flattened_result(stem, record, paper_id, lookup_reference(reference_rows, paper_id),
                     lines_of(record), output_dir, built_at, decided_at)

process_record(stem, record, reference_rows, output_dir, built_at, decided_at) ==
    identified_result(stem, record, record_paper_id(record, stem), reference_rows, output_dir,
                      built_at, decided_at)

(***************************************************************************)
(* Batch driver.                                                           *)
(***************************************************************************)
\* order of the characters that occur in file names
CharOrder == "-.0123456789ABCDEFGHIJKLMNOPQRSTUVWXYZ_abcdefghijklmnopqrstuvwxyz"
CharRank(c) == CHOOSE i \in 1..Len(CharOrder) : At(CharOrder, i) = c

RECURSIVE StrLess(_, _)
StrLess(a, b) ==
    IF b = "" THEN FALSE
    ELSE IF a = "" THEN TRUE
    ELSE IF At(a, 1) # At(b, 1) THEN CharRank(At(a, 1)) < CharRank(At(b, 1))
    ELSE StrLess(Tail(a), Tail(b))

\* sorted(input_dir.glob("*.json")), as the list of file stems
RECURSIVE sorted_stems(_)
sorted_stems(stems) ==
    IF stems = {} THEN << >>
    ELSE LET least == CHOOSE a \in stems : \A b \in stems \ {a} : StrLess(a, b)
         IN  <<least>> \o sorted_stems(stems \ {least})

collect_input_paths(files, paper_ids, limit) ==
    LET paths == sorted_stems(DOMAIN files)
        wanted == {strip(paper_ids[k]) : k \in {k \in DOMAIN paper_ids : strip(paper_ids[k]) # ""}}
        filtered == IF paper_ids # << >> THEN SelectSeq(paths, LAMBDA stem : stem \in wanted)
                    ELSE paths
    IN  IF limit > 0 THEN Slice(filtered, 0, limit) ELSE filtered

(***************************************************************************)
(* State.                                                                  *)
(***************************************************************************)
VARIABLES
    input_dir,        \* the text JSON files: file stem -> record
    references_csv,   \* the rows of the reference export CSV
    args,             \* the command line: paper_id list, limit, skip_registry_refresh
    output_dir,       \* the trimmed artifacts: paper id -> << >> or <<artifact>>
    registry_file,    \* the decision registry CSV: << >> or <<rows>>
    artifact_registry_runs, \* how often the artifact registry script has been run
    clock,            \* the wall clock read by now_utc_iso
    pc,               \* "idle", "rows" (inside the list comprehension), "done", "raised"
    run,              \* number of invocations of main so far
    reference_rows,   \* main's local: the loaded reference lookup
    paths,            \* main's local: the collected input file stems
    rows,             \* main's local: the decision rows built so far
    calls,            \* the locals of each process_record call of this run, in order
    previous          \* rows, calls and output_dir at the end of the previous run

vars == <<input_dir, references_csv, args, output_dir, registry_file, artifact_registry_runs,
          clock, pc, run, reference_rows, paths, rows, calls, previous>>

MaxClock == 2
MaxRuns == 2

Stems == {"101", "102"}
PaperIds == Stems

\* an artifact left behind by an earlier run on other inputs
StaleArtifact ==
    [paper_id |-> "101", source_filename |-> "old.pdf", source_sha256 |-> "old",
     source_text_json_path |-> json_path(INPUT_DIR, "101"), trim_status |-> "trimmed_auto",
     trim_method |-> "fuzzy_title_author_block_match", proceedings_detected |-> TRUE,
     title |-> "", authors |-> "", matched_block_code |-> "99",
     matched_block_title |-> "old", match_score |-> 10000, title_score |-> 10000,
     author_score |-> 10000, start_page_index |-> 0, end_page_index |-> 0,
     original_n_pages |-> 40, n_pages |-> 0, page_char_counts |-> << >>,
     trimmed_at_utc |-> 0, pages |-> << >>]

ArgChoices ==
    {[paper_id |-> << >>, limit |-> 0, skip_registry_refresh |-> FALSE],
     [paper_id |-> <<" 102 ", "">>, limit |-> 0, skip_registry_refresh |-> TRUE],
     [paper_id |-> << >>, limit |-> 1, skip_registry_refresh |-> FALSE]}

\* the records a batch is drawn from: one per outcome, one whose paper_id differs from
\* its file stem, one without a page list and one unreadable file
BatchRecords ==
    {Record("", "101_gad.pdf", 39, PagesOf(<<0>>, <<"12. Stiff GAD\nSmith J; Doe A, RN\ntext">>)),
     Record("", "Annual-Meeting.pdf", 40,
            PagesOf(<<0>>, <<"12. Stiff GAD\nSmith J; Doe A, RN\ntext">>)),
     Record("", "Annual-Meeting.pdf", 40, PagesOf(<<0>>, <<"A13. Gait\nClinic, USA">>)),
     Record("", "101_gad.pdf", 40, PagesOf(<<0>>, <<"Poster\tSessions\ntext">>)),
     Record("101", "Annual-Meeting.pdf", 40, PagesOf(<<5>>, <<"P-07.  GAD \nSmith J, MD">>)),
     MissingPagesRecord,
     CorruptRecord}

InitCommon ==
    /\ registry_file = << >>
    /\ artifact_registry_runs = 0
    /\ clock = 1
    /\ pc = "idle"
    /\ run = 0
    /\ reference_rows = << >>
    /\ paths = << >>
    /\ rows = << >>
    /\ calls = << >>
    /\ previous = << >>

\* a batch of files, any reference table, any earlier content of the output directory
Init ==
    /\ \E stems \in SUBSET Stems : input_dir \in [stems -> BatchRecords]
    /\ references_csv \in ReferenceCsvs
    /\ args \in ArgChoices
    /\ output_dir \in [PaperIds -> {<< >>, <<StaleArtifact>>}]
    /\ InitCommon

\* one file holding any record of the catalogue
InitRecord ==
    /\ input_dir \in [{"101"} -> Records \cup {CorruptRecord}]
    /\ references_csv \in ReferenceCsvs
    /\ args = [paper_id |-> << >>, limit |-> 0, skip_registry_refresh |-> FALSE]
    /\ output_dir \in {[id \in PaperIds |-> IF id = "101" THEN prior ELSE << >>] :
                          prior \in {<< >>, <<StaleArtifact>>}}
    /\ InitCommon

\* one file holding any record of the scorer and marker cases
InitCases ==
    /\ input_dir \in [{"101"} -> CaseRecords \cup {CorruptRecord}]
    /\ references_csv \in CaseReferenceCsvs
    /\ args = [paper_id |-> << >>, limit |-> 0, skip_registry_refresh |-> FALSE]
    /\ output_dir \in {[id \in PaperIds |-> IF id = "101" THEN prior ELSE << >>] :
                          prior \in {<< >>, <<StaleArtifact>>}}
    /\ InitCommon

\* main is invoked: load_reference_rows and collect_input_paths, up to the start of
\* the list comprehension.  A second invocation remembers how the first one ended.
MainStart ==
    /\ pc \in {"idle", "done", "raised"}
    /\ run < MaxRuns
    /\ run' = run + 1
    /\ reference_rows' = load_reference_rows(references_csv)
    /\ paths' = collect_input_paths(input_dir, args.paper_id, args.limit)
    /\ rows' = << >>
    /\ calls' = << >>
    /\ previous' = IF run = 0 THEN << >>
                   ELSE <<[rows |-> rows, calls |-> calls, output_dir |-> output_dir,
                           registry_file |-> registry_file, pc |-> pc]>>
    /\ pc' = "rows"
    /\ UNCHANGED <<input_dir, references_csv, args, output_dir, registry_file,
                   artifact_registry_runs, clock>>

\* main's bookkeeping of the call for `stem` that returned `result`
Returned(stem, result, decided_at) ==
    /\ rows' = Append(rows, result.row)
    /\ output_dir' = result.output_dir
    /\ calls' = Append(calls, [stem |-> stem,
                               paper_id |-> result.paper_id,
                               existed |-> output_dir[result.paper_id] # << >>,
                               lines |-> result.lines,
                               segmented |-> result.segmented,
                               blocks |-> result.blocks,
                               best |-> result.best,
                               status |-> result.row.trim_status])
    /\ clock' = IF result.row.trim_status = "trimmed_auto" THEN decided_at ELSE clock

\* process_record on the next file of the list at the clock readings it takes
CallAt(stem, built_at, decided_at) ==
    Returned(stem,
             process_record(stem, input_dir[stem], reference_rows, output_dir, built_at,
                            decided_at),
             decided_at)

\* one element of the list comprehension: process_record returns a row.  now_utc_iso is
\* read twice on the trimmed_auto path (build_trimmed_record, then decision_row) and not
\* at all on the others.
ProcessRecord ==
    /\ pc = "rows"
    /\ Len(rows) < Len(paths)
    /\ input_dir[paths[Len(rows) + 1]].json_ok
    /\ \E built_at \in clock..MaxClock :
       \E decided_at \in built_at..MaxClock :
          CallAt(paths[Len(rows) + 1], built_at, decided_at)
    /\ UNCHANGED <<input_dir, references_csv, args, registry_file, artifact_registry_runs,
                   pc, run, reference_rows, paths, previous>>

\* load_text_record raises on a file that is not valid JSON; nothing in process_record
\* or main catches it, so main ends with the exception
ProcessRecordRaises ==
    /\ pc = "rows"
    /\ Len(rows) < Len(paths)
    /\ ~input_dir[paths[Len(rows) + 1]].json_ok
    /\ pc' = "raised"
    /\ UNCHANGED <<input_dir, references_csv, args, output_dir, registry_file,
                   artifact_registry_runs, clock, run, reference_rows, paths, rows, calls,
                   previous>>

\* the list comprehension is complete: write_registry, refresh_artifact_registry, print
WriteRegistry ==
    /\ pc = "rows"
    /\ Len(rows) = Len(paths)
    /\ registry_file' = <<rows>>
    /\ artifact_registry_runs' = IF args.skip_registry_refresh THEN artifact_registry_runs
                                 ELSE artifact_registry_runs + 1
    /\ pc' = "done"
    /\ UNCHANGED <<input_dir, references_csv, args, output_dir, clock, run, reference_rows,
                   paths, rows, calls, previous>>

Next == MainStart \/ ProcessRecord \/ ProcessRecordRaises \/ WriteRegistry

Spec == Init /\ [][Next]_vars

SpecRecord == InitRecord /\ [][Next]_vars

SpecCases == InitCases /\ [][Next]_vars

TypeOK == pc \in {"idle", "rows", "done", "raised"}

(***************************************************************************)
(* Properties of the decision engine, checked on every process_record call *)
(* of a run: rows[i] is the row returned by the i-th call and calls[i]     *)
(* holds that call's locals.                                               *)
(***************************************************************************)

\* C1: process_record returns not_needed if and only if the detector signal
\* proceedings_detected is false, and then no block is segmented or scored and the row
\* carries no block: code, title, the three scores and the page span are empty.
C1_NotNeededIffNotDetected ==
    \A i \in DOMAIN calls :
        /\ rows[i].trim_status = "not_needed" <=> rows[i].proceedings_detected = "false"
        /\ rows[i].trim_status = "not_needed" =>
              /\ ~calls[i].segmented
              /\ calls[i].blocks = << >>
              /\ calls[i].best = 0
              /\ rows[i].matched_block_code = ""
              /\ rows[i].matched_block_title = ""
              /\ rows[i].title_score = << >>
              /\ rows[i].author_score = << >>
              /\ rows[i].match_score = << >>
              /\ rows[i].start_page_index = << >>
              /\ rows[i].end_page_index = << >>

\* a not_needed call on a document whose lines would segment into blocks, one of
\* them passing the confidence gate against the reference
C1_Witness ==
    \E i \in DOMAIN calls :
        /\ rows[i].trim_status = "not_needed"
        /\ rows[i].n_pages = 39
        /\ rows[i].title # ""
        /\ \E block \in Range(scored_blocks(extract_blocks(calls[i].lines),
                                            rows[i].title, rows[i].authors)) :
              high_confidence(block)

\* C2: for a document with proceedings_detected true, the status is
\* manual_review_required when segmentation yields zero blocks or when the best block
\* fails title_score >= 0.70 OR (title_score >= 0.55 AND author_score >= 0.25 AND
\* match_score >= 0.60); it is trimmed_auto exactly when a best block exists and
\* satisfies that gate.
C2_StatusFollowsGate ==
    \A i \in DOMAIN calls :
        rows[i].proceedings_detected = "true" =>
            LET blocks == calls[i].blocks
                best == calls[i].best
                passes ==
                    /\ best # 0
                    /\ \/ FracGE(blocks[best].title_score, Frac(70, 100))
                       \/ /\ FracGE(blocks[best].title_score, Frac(55, 100))
                          /\ FracGE(blocks[best].author_score, Frac(25, 100))
                          /\ FracGE(blocks[best].match_score, Frac(60, 100))
            IN  /\ calls[i].segmented
                /\ blocks = << >> => rows[i].trim_status = "manual_review_required"
                /\ ~passes => rows[i].trim_status = "manual_review_required"
                /\ rows[i].trim_status = "trimmed_auto" <=> passes
                /\ best # 0 => rows[i].matched_block_code = blocks[best].code

\* a detected document trimmed through the first alternative of the gate alone: the
\* best block has title_score >= 0.70 and author_score < 0.25
C2_Witness ==
    \E i \in DOMAIN calls :
        /\ rows[i].proceedings_detected = "true"
        /\ rows[i].trim_status = "trimmed_auto"
        /\ calls[i].best # 0
        /\ FracGE(calls[i].blocks[calls[i].best].title_score, Frac(70, 100))
        /\ ~FracGE(calls[i].blocks[calls[i].best].author_score, Frac(25, 100))

\* C3: after process_record finishes, whatever the output directory held before, the
\* artifact <paper_id>.json exists if and only if the returned status is trimmed_auto;
\* on trimmed_auto it is the artifact built in this call (a prior one is overwritten),
\* on every other status a prior one is deleted.
C3_ArtifactIffTrimmed ==
    calls # << >> =>
        LET last == calls[Len(calls)]
            row == rows[Len(rows)]
            file == output_dir[last.paper_id]
        IN  /\ Len(rows) = Len(calls)
            /\ file # << >> <=> row.trim_status = "trimmed_auto"
            /\ row.trim_status = "trimmed_auto" =>
                  /\ Len(file) = 1
                  /\ file[1].paper_id = last.paper_id
                  /\ file[1].source_sha256 = input_dir[last.stem].source_sha256
                  /\ file[1].matched_block_code = row.matched_block_code
                  /\ row.trimmed_text_json_path = json_path(OUTPUT_DIR, last.paper_id)
            /\ row.trim_status # "trimmed_auto" => row.trimmed_text_json_path = ""

\* a run in which one call overwrote a prior artifact and another deleted one
C3_Witness ==
    \E i, j \in DOMAIN calls :
        /\ calls[i].existed /\ calls[i].status = "trimmed_auto"
        /\ calls[j].existed /\ calls[j].status # "trimmed_auto"
        /\ output_dir[calls[j].paper_id] = << >>

\* C4: if some block of a document has title_score 1.0, the engine reaches trimmed_auto
\* for that document (the blocks of a document being those the engine segmented and
\* scored for it).
C4_PerfectTitleIsTrimmed ==
    \A i \in DOMAIN calls :
        (\E k \in DOMAIN calls[i].blocks : calls[i].blocks[k].title_score = One)
            => rows[i].trim_status = "trimmed_auto"

\* a trimmed document whose block with title_score 1.0 is not the first block, and
\* whose first block alone fails the confidence gate
C4_Witness ==
    \E i \in DOMAIN calls :
        /\ rows[i].trim_status = "trimmed_auto"
        /\ Len(calls[i].blocks) >= 2
        /\ calls[i].blocks[1].title_score # One
        /\ ~high_confidence(calls[i].blocks[1])
        /\ \E k \in DOMAIN calls[i].blocks : calls[i].blocks[k].title_score = One

\* C5: the row's proceedings_detected is true if and only if n_pages >= 40 AND
\* (abstract_block_count >= 8 OR (title_like_line_count >= 20 AND
\* author_like_line_count >= 10) OR program_marker_count > 0); a 39-page document with
\* 10 abstract-start lines is not flagged and a 40-page document with 10 abstract-start
\* lines is flagged (the pages of an n-page document having page_index < n).
C5_DetectionRule ==
    \A i \in DOMAIN calls :
        LET row == rows[i]
            starts == {k \in DOMAIN calls[i].lines : is_abstract_start(calls[i].lines[k].text)}
            in_document == \A k \in DOMAIN calls[i].lines :
                               calls[i].lines[k].page_index < row.n_pages
        IN  /\ row.proceedings_detected = "true" <=>
                  /\ row.n_pages >= 40
                  /\ \/ row.abstract_block_count >= 8
                     \/ (row.title_like_line_count >= 20 /\ row.author_like_line_count >= 10)
                     \/ row.program_marker_count > 0
            /\ row.proceedings_detected \in {"true", "false"}
            /\ row.n_pages = input_dir[calls[i].stem].n_pages
            /\ (row.n_pages = 39 /\ Cardinality(starts) = 10 /\ in_document)
                  => row.proceedings_detected = "false"
            /\ (row.n_pages = 40 /\ Cardinality(starts) = 10 /\ in_document)
                  => row.proceedings_detected = "true"

\* a 40-page document flagged on its 10 abstract-start lines alone
C5_Witness ==
    \E i \in DOMAIN calls :
        /\ rows[i].n_pages = 40
        /\ rows[i].abstract_block_count = 10
        /\ rows[i].program_marker_count = 0
        /\ rows[i].author_like_line_count < 10
        /\ rows[i].proceedings_detected = "true"

\* C6: the blocks extract_blocks returns, in order, have start_index < end_index, are
\* contiguous (each end_index is the next start_index, so no two overlap), and cover
\* exactly the lines from the first abstract-start line to the end; the lines before
\* the first abstract-start line belong to no block.
C6_BlocksPartitionSuffix ==
    \A i \in DOMAIN calls :
        calls[i].segmented =>
            LET lines == calls[i].lines
                blocks == calls[i].blocks
                starts == {k \in DOMAIN lines : is_abstract_start(lines[k].text)}
                InBlock(k, b) == blocks[b].start_index <= k - 1 /\ k - 1 < blocks[b].end_index
            IN  /\ \A b \in DOMAIN blocks :
                      /\ 0 <= blocks[b].start_index
                      /\ blocks[b].start_index < blocks[b].end_index
                      /\ blocks[b].end_index <= Len(lines)
                      /\ blocks[b].line_refs =
                             SubSeq(lines, blocks[b].start_index + 1, blocks[b].end_index)
                /\ \A b \in 1..(Len(blocks) - 1) :
                      blocks[b].end_index = blocks[b + 1].start_index
                /\ \A k \in DOMAIN lines :
                      Cardinality({b \in DOMAIN blocks : InBlock(k, b)})
                          = IF \E first \in starts : first <= k THEN 1 ELSE 0
                /\ starts = {} <=> blocks = << >>

\* a segmented document with lines before its first abstract-start line and more than
\* one block
C6_Witness ==
    \E i \in DOMAIN calls :
        /\ calls[i].segmented
        /\ Len(calls[i].blocks) >= 2
        /\ calls[i].blocks[1].start_index > 0
        /\ calls[i].blocks[1].end_index - calls[i].blocks[1].start_index >= 2

\* C7: best_matching_block returns a block whose match_score is greater than or equal to
\* every other block's, the first in document order among the blocks with that maximal
\* score, and returns no block only when the block list is empty.
C7_BestIsFirstMaximum ==
    \A i \in DOMAIN calls :
        calls[i].segmented =>
            LET blocks == calls[i].blocks
                best == calls[i].best
            IN  /\ best = 0 <=> blocks = << >>
                /\ best # 0 =>
                      /\ best \in DOMAIN blocks
                      /\ \A k \in DOMAIN blocks :
                            FracGE(blocks[best].match_score, blocks[k].match_score)
                      /\ \A k \in 1..(best - 1) :
                            ~FracGE(blocks[k].match_score, blocks[best].match_score)

\* two blocks tie on a positive maximal match_score and the earlier one is returned
C7_Witness ==
    \E i \in DOMAIN calls :
        /\ calls[i].segmented
        /\ calls[i].best # 0
        /\ FracGT(calls[i].blocks[calls[i].best].match_score, Zero)
        /\ \E k \in DOMAIN calls[i].blocks :
              /\ k > calls[i].best
              /\ calls[i].blocks[k].match_score = calls[i].blocks[calls[i].best].match_score

(***************************************************************************)
(* Properties of whole runs of main.  `previous` holds the rows, the       *)
(* output directory and the way the preceding run of main ended; the input *)
(* files, the reference CSV and the arguments never change between runs.   *)
(***************************************************************************)

C9_FailureDoesNotHaltBatch ==
    pc \in {"done", "raised"} =>
        /\ Len(rows) = Len(paths)
        /\ registry_file = <<rows>>

\* C10: when a batch run has ended, the registry holds exactly one row per document the
\* run processed, whatever its outcome, carrying the document identifier, the signal
\* snapshot, the terminal status and the reason string.
C10_OneRowPerProcessedDocument ==
    pc \in {"done", "raised"} =>
        /\ \A i \in DOMAIN calls :
              /\ registry_file # << >>
              /\ i \in DOMAIN registry_file[1]
              /\ registry_file[1][i].paper_id = calls[i].paper_id
              /\ registry_file[1][i].trim_status = calls[i].status
              /\ registry_file[1][i].trim_status
                     \in {"not_needed", "manual_review_required", "trimmed_auto"}
              /\ registry_file[1][i].trim_reason
                     \in {REASON_NOT_NEEDED, REASON_NO_BLOCK, REASON_LOW_CONFIDENCE,
                          REASON_TRIMMED}
              /\ registry_file[1][i].n_pages = input_dir[calls[i].stem].n_pages
              /\ registry_file[1][i].proceedings_detected \in {"true", "false"}
        /\ registry_file # << >> => Len(registry_file[1]) = Len(calls)

(***************************************************************************)
(* Properties of the artifact paths and of the trimmed pages.              *)
(***************************************************************************)

\* C11: trimmed-artifact writes and deletes are keyed by a unique per-document
\* identifier: the calls of a run for two distinct input files never write or delete
\* the same artifact path.
C11_DistinctDocumentsDistinctPaths ==
    \A i, j \in DOMAIN calls :
        calls[i].stem # calls[j].stem =>
            json_path(OUTPUT_DIR, calls[i].paper_id) # json_path(OUTPUT_DIR, calls[j].paper_id)

C13_EqualNonEmptyTitlesScoreOne ==
    \A i \in DOMAIN calls :
        \A k \in DOMAIN calls[i].blocks :
            LET ref_norm == normalize_text(rows[i].title)
                block_norm == normalize_text(calls[i].blocks[k].title_text)
            IN  /\ (ref_norm = block_norm /\ ref_norm # "") =>
                      calls[i].blocks[k].title_score = One
                /\ (ref_norm = "" \/ block_norm = "") =>
                      calls[i].blocks[k].title_score = Zero

\* a block whose title differs from the reference title in case, accent and
\* punctuation and scores 1.0
C13_Witness ==
    \E i \in DOMAIN calls :
        \E k \in DOMAIN calls[i].blocks :
            /\ rows[i].title # calls[i].blocks[k].title_text
            /\ lower(rows[i].title) # lower(calls[i].blocks[k].title_text)
            /\ normalize_text(rows[i].title) = normalize_text(calls[i].blocks[k].title_text)
            /\ normalize_text(rows[i].title) # ""
            /\ calls[i].blocks[k].title_score = One

\* C13 as stated: whenever the normalized reference title equals the normalized block
\* title, the block's title_score is 1.0.
C13_EqualTitlesScoreOne ==
    \A i \in DOMAIN calls :
        \A k \in DOMAIN calls[i].blocks :
            normalize_text(rows[i].title) = normalize_text(calls[i].blocks[k].title_text)
                => calls[i].blocks[k].title_score = One

\* C14: the author_score of a block is taken over at most 6 surnames, each the
\* normalized text before the first comma of a semicolon-delimited author entry,
\* de-duplicated in first-occurrence order; it is (number of considered surnames that
\* match the block preview) / (number of considered surnames), 0 when the reference
\* has no parsable authors and 1.0 when every considered surname matches.
C14_AuthorScoreOverSixSurnames ==
    \A i \in DOMAIN calls :
        \A k \in DOMAIN calls[i].blocks :
            LET entries == split_on(rows[i].authors, ";")
                candidate == [e \in DOMAIN entries |->
                                 normalize_text(before_first(entries[e], ","))]
                firsts == {e \in DOMAIN entries :
                              /\ candidate[e] # ""
                              /\ \A d \in 1..(e - 1) : candidate[d] # candidate[e]}
                considered == {e \in firsts : Cardinality({d \in firsts : d < e}) < 6}
                preview == calls[i].blocks[k].preview_text
                matched == {e \in considered :
                               surname_matches(candidate[e], normalize_text(preview),
                                               token_set(preview, 3))}
                score == calls[i].blocks[k].author_score
            IN  /\ Cardinality(considered) <= 6
                /\ considered = {} => score = Zero
                /\ considered # {} =>
                      /\ FracMul(score, <<Cardinality(considered), 1>>)
                             = <<Cardinality(matched), 1>>
                      /\ matched = considered <=> score = One

\* a reference with more than six distinct surnames, a repeated surname and an empty
\* entry, scored against a block that matches some of the six but not all
C14_Witness ==
    \E i \in DOMAIN calls :
        \E k \in DOMAIN calls[i].blocks :
            LET entries == split_on(rows[i].authors, ";")
                candidate == [e \in DOMAIN entries |->
                                 normalize_text(before_first(entries[e], ","))]
            IN  /\ Cardinality(Range(candidate) \ {""}) > 6
                /\ "" \in Range(candidate)
                /\ \E d, e \in DOMAIN entries : d # e /\ candidate[d] = candidate[e]
                /\ calls[i].blocks[k].author_score \notin {Zero, One}

\* C15 amended: a reference surname counts as matched if and only if the normalized
\* block preview contains it as a substring, or the surname has at least one word of
\* three or more characters and all of its words of three or more characters appear
\* as separate tokens of the normalized block preview; shorter words of the surname are
\* not looked for.
C15_SurnameMatchRule ==
    \A i \in DOMAIN calls :
        \A k \in DOMAIN calls[i].blocks :
            LET surnames == parse_reference_surnames(rows[i].authors)
                preview == normalize_text(calls[i].blocks[k].preview_text)
                preview_tokens == Range(split(preview))
                long_words(surname) == {w \in Range(split(surname)) : Len(w) >= 3}
                matched == {s \in DOMAIN surnames :
                               \/ Contains(preview, surnames[s])
                               \/ /\ long_words(surnames[s]) # {}
                                  /\ long_words(surnames[s]) \subseteq preview_tokens}
            IN  surnames # << >> =>
                    calls[i].blocks[k].author_score = Frac(Cardinality(matched), Len(surnames))

\* a surname with a word of fewer than three characters that is not a substring of the
\* preview and is matched by its one long word
C15_Witness ==
    \E i \in DOMAIN calls :
        \E k \in DOMAIN calls[i].blocks :
            LET surnames == parse_reference_surnames(rows[i].authors)
                preview == normalize_text(calls[i].blocks[k].preview_text)
            IN  /\ Len(surnames) = 1
                /\ \E w \in Range(split(surnames[1])) : Len(w) < 3
                /\ ~Contains(preview, surnames[1])
                /\ calls[i].blocks[k].author_score = One

\* C15 as stated: a reference surname counts as matched if and only if the normalized
\* block preview contains it as a substring, or all of the surname's words appear as
\* separate tokens of the block preview.
C15_SurnameMatchAllWords ==
    \A i \in DOMAIN calls :
        \A k \in DOMAIN calls[i].blocks :
            LET surnames == parse_reference_surnames(rows[i].authors)
                preview == normalize_text(calls[i].blocks[k].preview_text)
                preview_tokens == Range(split(preview))
                matched == {s \in DOMAIN surnames :
                               \/ Contains(preview, surnames[s])
                               \/ Range(split(surnames[s])) \subseteq preview_tokens}
            IN  surnames # << >> =>
                    calls[i].blocks[k].author_score = Frac(Cardinality(matched), Len(surnames))

\* C16: for every scored block, title_score and author_score lie in [0, 1] and
\* match_score equals 0.75 * title_score + 0.25 * author_score, hence lies in [0, 1].
C16_ScoresInUnitInterval ==
    \A i \in DOMAIN calls :
        \A k \in DOMAIN calls[i].blocks :
            LET t == calls[i].blocks[k].title_score
                a == calls[i].blocks[k].author_score
                m == calls[i].blocks[k].match_score
            IN  /\ t[2] > 0 /\ a[2] > 0 /\ m[2] > 0
                /\ 0 <= t[1] /\ t[1] <= t[2]
                /\ 0 <= a[1] /\ a[1] <= a[2]
                /\ 0 <= m[1] /\ m[1] <= m[2]
                /\ m[1] * (4 * t[2] * a[2]) = m[2] * (3 * t[1] * a[2] + a[1] * t[2])

\* a block whose title and author scores are different values strictly between 0 and 1
C16_Witness ==
    \E i \in DOMAIN calls :
        \E k \in DOMAIN calls[i].blocks :
            LET t == calls[i].blocks[k].title_score
                a == calls[i].blocks[k].author_score
            IN  /\ 0 < t[1] /\ t[1] < t[2]
                /\ 0 < a[1] /\ a[1] < a[2]
                /\ t # a

(***************************************************************************)
(* Properties of the outcomes of process_record.                           *)
(***************************************************************************)

\* C17: for every readable document record with a page list and every reference lookup
\* result (a row, a row without title or authors, no row), process_record returns
\* without raising with exactly one of the statuses not_needed, manual_review_required,
\* trimmed_auto; a detected document with no block or with a best block below the
\* confidence gate yields manual_review_required; a run only ends with an exception on
\* a file that is not valid JSON.
C17_AlwaysATerminalStatus ==
    /\ \A i \in DOMAIN calls :
          /\ rows[i].trim_status \in {"not_needed", "manual_review_required", "trimmed_auto"}
          /\ (/\ rows[i].proceedings_detected = "true"
              /\ \/ calls[i].best = 0
                 \/ ~high_confidence(calls[i].blocks[calls[i].best]))
                => rows[i].trim_status = "manual_review_required"
    /\ pc = "raised" => ~input_dir[paths[Len(rows) + 1]].json_ok
    /\ pc = "done" => Len(rows) = Len(paths)

\* a detected document with blocks and no reference row: manual review, not an error
C17_Witness ==
    \E i \in DOMAIN calls :
        /\ input_dir[calls[i].stem].has_pages
        /\ calls[i].paper_id \notin DOMAIN reference_rows
        /\ rows[i].proceedings_detected = "true"
        /\ calls[i].best # 0
        /\ rows[i].trim_status = "manual_review_required"

\* C18: processing a document record that is missing its page list raises an error
\* for that document and produces no decision record: every call that returned a row
\* was made on a record with a page list.
C18_MissingPageListRaises ==
    \A i \in DOMAIN calls : input_dir[calls[i].stem].has_pages

\* C19 amended: program_marker_count is the number of the five fixed phrases
\* "annual meeting", "program and abstracts", "program abstracts", "poster sessions",
\* "poster presentations" that occur in the normalized text made of the source filename
\* followed by the text of the first 5 pages (page_index < 5); it is positive only if
\* one of these five phrases occurs there.
C19_ProgramMarkerCount ==
    \A i \in DOMAIN calls :
        LET first_pages == SelectSeq(calls[i].lines, LAMBDA line : line.page_index < 5)
            marker_text ==
                normalize_text(rows[i].source_filename \o " "
                                   \o join(" ", [k \in DOMAIN first_pages |-> first_pages[k].text]))
            phrases == {"annual meeting", "program and abstracts", "program abstracts",
                        "poster sessions", "poster presentations"}
        IN  rows[i].program_marker_count
                = Cardinality({phrase \in phrases : Contains(marker_text, phrase)})

\* a document counted twice: one phrase in its file name, another on one of its first
\* five pages
C19_Witness ==
    \E i \in DOMAIN calls :
        /\ rows[i].program_marker_count = 2
        /\ Contains(normalize_text(rows[i].source_filename), "annual meeting")
        /\ \E k \in DOMAIN calls[i].lines :
              /\ calls[i].lines[k].page_index < 5
              /\ Contains(normalize_text(calls[i].lines[k].text), "poster presentations")

\* C19 as stated: program_marker_count is the number of the four phrases "annual
\* meeting", "program and abstracts", "poster sessions", "poster presentations" that
\* occur in the normalized source filename or in the normalized text of the first 5
\* pages.
C19_FourProgramMarkers ==
    \A i \in DOMAIN calls :
        LET first_pages == SelectSeq(calls[i].lines, LAMBDA line : line.page_index < 5)
            filename == normalize_text(rows[i].source_filename)
            pages_text ==
                normalize_text(join(" ", [k \in DOMAIN first_pages |-> first_pages[k].text]))
            phrases == {"annual meeting", "program and abstracts", "poster sessions",
                        "poster presentations"}
        IN  rows[i].program_marker_count
                = Cardinality({phrase \in phrases :
                                  Contains(filename, phrase) \/ Contains(pages_text, phrase)})

\* C20: when a detected document's best block fails the confidence gate, the
\* manual_review_required row carries that block's code, title, title/author/match
\* scores (to four decimals) and page span; the matched-block fields are all empty
\* exactly when no block was chosen (not_needed, or detected with zero blocks); the
\* trimmed-artifact path and the trim method are non-empty exactly when the status is
\* trimmed_auto.
C20_RowCarriesBestCandidate ==
    \A i \in DOMAIN calls :
        LET row == rows[i]
            best == calls[i].best
            block == calls[i].blocks[best]
            tenthousandths(score) == (20000 * score[1] + score[2]) \div (2 * score[2])
            is_tie(score) == (20000 * score[1]) % (2 * score[2]) = score[2]
            shown(field, score) ==
                /\ Len(field) = 1
                /\ \/ field[1] = tenthousandths(score)
                   \/ is_tie(score) /\ field[1] = tenthousandths(score) - 1
        IN  /\ best # 0 =>
                  /\ row.matched_block_code = block.code /\ block.code # ""
                  /\ row.matched_block_title = block.title_text
                  /\ shown(row.title_score, block.title_score)
                  /\ shown(row.author_score, block.author_score)
                  /\ shown(row.match_score, block.match_score)
                  /\ row.start_page_index = <<block.start_page_index>>
                  /\ row.end_page_index = <<block.end_page_index>>
            /\ best = 0 <=>
                  /\ row.matched_block_code = "" /\ row.matched_block_title = ""
                  /\ row.title_score = << >> /\ row.author_score = << >>
                  /\ row.match_score = << >>
                  /\ row.start_page_index = << >> /\ row.end_page_index = << >>
            /\ best = 0 <=>
                  \/ row.trim_status = "not_needed"
                  \/ row.proceedings_detected = "true" /\ calls[i].blocks = << >>
            /\ row.trimmed_text_json_path # "" <=> row.trim_status = "trimmed_auto"
            /\ row.trim_method # "" <=> row.trim_status = "trimmed_auto"

\* a manual-review row for a best block that is not the first block and fails the gate
\* with a non-zero title score
C20_Witness ==
    \E i \in DOMAIN calls :
        /\ rows[i].trim_status = "manual_review_required"
        /\ calls[i].best > 1
        /\ rows[i].title_score # <<0>>
        /\ rows[i].match_score # <<0>>
        /\ rows[i].matched_block_code = calls[i].blocks[calls[i].best].code

(***************************************************************************)
(* Properties of the detector's window, the segmenter and the trimmed      *)
(* pages.                                                                  *)
(***************************************************************************)

\* C21: the detection signals do not depend on content outside the front window: the
\* signals of a document are those of the same document cut down to its pages with
\* page_index < 40 (so two documents with the same n_pages and file name and the same
\* lines on those pages have the same signals), and program_marker_count is that of the
\* document cut down to its pages with page_index < 5.
C21_SignalsOfFrontWindowOnly ==
    \A i \in DOMAIN calls :
        LET record == input_dir[calls[i].stem]
            front == [record EXCEPT
                         !.pages = SelectSeq(record.pages, LAMBDA page : page.page_index < 40)]
            first_five == [record EXCEPT
                              !.pages = SelectSeq(record.pages, LAMBDA page : page.page_index < 5)]
            signals == proceedings_signals(front, flatten_lines(front))
        IN  /\ rows[i].n_pages = signals.n_pages
            /\ rows[i].abstract_block_count = signals.abstract_block_count
            /\ rows[i].title_like_line_count = signals.title_like_line_count
            /\ rows[i].author_like_line_count = signals.author_like_line_count
            /\ rows[i].program_marker_count = signals.program_marker_count
            /\ rows[i].proceedings_detected = bool_text(signals.proceedings_detected)
            /\ rows[i].program_marker_count
                   = proceedings_signals(first_five, flatten_lines(first_five)).program_marker_count

\* a document with an abstract-start line inside the window and another one on a page
\* with page_index >= 40, of which the signals count the first only
C21_Witness ==
    \E i \in DOMAIN calls :
        /\ rows[i].abstract_block_count = 1
        /\ \E k \in DOMAIN calls[i].lines :
              /\ calls[i].lines[k].page_index >= 40
              /\ is_abstract_start(calls[i].lines[k].text)
        /\ \E k \in DOMAIN calls[i].lines :
              /\ calls[i].lines[k].page_index < 40
              /\ is_abstract_start(calls[i].lines[k].text)

\* C22: every block returned by extract_blocks begins with an abstract-start line,
\* contains no other abstract-start line and carries the session code that line begins
\* with; the number of blocks is the number of abstract-start lines of the whole
\* flattened document, so a document without abstract-start lines has no blocks.
C22_OneBlockPerAbstractStart ==
    \A i \in DOMAIN calls :
        calls[i].segmented =>
            LET lines == calls[i].lines
                blocks == calls[i].blocks
            IN  /\ Len(blocks)
                       = Cardinality({k \in DOMAIN lines : is_abstract_start(lines[k].text)})
                /\ \A b \in DOMAIN blocks :
                      LET refs == blocks[b].line_refs
                          first == strip(refs[1].text)
                          code == blocks[b].code
                      IN  /\ is_abstract_start(refs[1].text)
                          /\ \A n \in 2..Len(refs) : ~is_abstract_start(refs[n].text)
                          /\ Len(code) >= 2
                          /\ SubSeq(first, 1, Len(code) + 1) = code \o "."
                          /\ \A c \in 1..Len(code) :
                                IsUpper(At(code, c)) \/ IsDigit(At(code, c)) \/ At(code, c) = "-"

\* a segmented document with an abstract-start line beyond the detector's window: it
\* has more blocks than the detector counted abstract starts
C22_Witness ==
    \E i \in DOMAIN calls :
        /\ calls[i].segmented
        /\ Len(calls[i].blocks) = 2
        /\ rows[i].abstract_block_count = 1
        /\ calls[i].blocks[1].code # calls[i].blocks[2].code

\* C23: a block's title_text is the remainder of its abstract-start line after the code
\* and the period, followed by the longest run of the immediately following lines of the
\* block, at most 4, that ends before the first abstract-start, author-like,
\* institution-like or footer-like line; its header_text is the block's first
\* consumed + 4 lines and its preview_text the block's first 12 lines without the
\* footer-like ones.
C23_TitleHeaderPreview ==
    \A i \in DOMAIN calls :
        \A b \in DOMAIN calls[i].blocks :
            LET block == calls[i].blocks[b]
                refs == block.line_refs
                first == strip(refs[1].text)
                remainder == strip(SubSeq(first, Len(block.code) + 2, Len(first)))
                limit == IF Len(refs) < 5 THEN Len(refs) ELSE 5
                stops == {n \in 2..limit :
                             \/ is_abstract_start(refs[n].text)
                             \/ is_author_like(refs[n].text)
                             \/ is_institution_like(refs[n].text)
                             \/ is_footer_like(refs[n].text)}
                consumed == 1 + Cardinality({n \in 2..limit : \A m \in 2..n : m \notin stops})
                upto(n) == IF Len(refs) < n THEN Len(refs) ELSE n
                window == SubSeq(refs, 1, upto(12))
            IN  /\ block.title_text
                       = join(" ", <<remainder>> \o [n \in 1..(consumed - 1) |-> refs[n + 1].text])
                /\ block.header_text
                       = join(" ", [n \in 1..upto(consumed + 4) |-> refs[n].text])
                /\ block.preview_text
                       = join(" ", texts_of(SelectSeq(window,
                                                      LAMBDA ref : ~is_footer_like(ref.text))))

\* a block of more than 12 lines whose title takes the four lines after the start line
\* and leaves out a fifth that no test stops, with a footer-like line among its first 12
C23_Witness ==
    \E i \in DOMAIN calls :
        \E b \in DOMAIN calls[i].blocks :
            LET refs == calls[i].blocks[b].line_refs
            IN  /\ Len(refs) > 12
                /\ \A n \in 2..6 :
                      /\ ~is_author_like(refs[n].text)
                      /\ ~is_institution_like(refs[n].text)
                      /\ ~is_footer_like(refs[n].text)
                /\ \E n \in 1..12 : is_footer_like(refs[n].text)
                /\ calls[i].blocks[b].title_text = "Tics of the leg and"

\* C24 amended: the pages of a trimmed document are one page per distinct page_index
\* of the winning block's lines that are not footer-like, in increasing page_index
\* order (the order of the source document when it lists its pages by increasing
\* page_index); each page's text is that page's non-footer block lines in their
\* original order joined by newlines; no emitted line is footer-like and no emitted
\* page has empty text.
C24_PagesOfNonFooterLines ==
    (calls # << >> /\ calls[Len(calls)].status = "trimmed_auto") =>
        LET last == calls[Len(calls)]
            refs == last.blocks[last.best].line_refs
            kept == SelectSeq(refs, LAMBDA ref : ~is_footer_like(ref.text))
            emitted == output_dir[last.paper_id][1].pages
        IN  /\ {emitted[k].page_index : k \in DOMAIN emitted}
                   = {kept[n].page_index : n \in DOMAIN kept}
            /\ \A k \in 1..(Len(emitted) - 1) :
                  emitted[k].page_index < emitted[k + 1].page_index
            /\ \A k \in DOMAIN emitted :
                  /\ emitted[k].text # ""
                  /\ split_on(emitted[k].text, "\n")
                         = texts_of(SelectSeq(kept, LAMBDA ref :
                                                 ref.page_index = emitted[k].page_index))
                  /\ \A line \in Range(split_on(emitted[k].text, "\n")) : ~is_footer_like(line)

\* a trimmed block that ends with a footer-like line on a page of its own, which the
\* trimmed document leaves out
C24_Witness ==
    /\ calls # << >>
    /\ calls[Len(calls)].status = "trimmed_auto"
    /\ LET last == calls[Len(calls)]
           refs == last.blocks[last.best].line_refs
           emitted == output_dir[last.paper_id][1].pages
       IN  /\ Len(emitted) = 1
           /\ \E n \in DOMAIN refs :
                 /\ refs[n].page_index # emitted[1].page_index
                 /\ is_footer_like(refs[n].text)

\* C24 as stated: the pages of a trimmed document are one page per distinct page_index
\* of the winning block's lines, in the order in which the source document lists its
\* pages, each page's text being that page's block lines in original order joined by
\* newlines, without footer-like lines and without empty pages.
C24_OnePagePerBlockPage ==
    (calls # << >> /\ calls[Len(calls)].status = "trimmed_auto") =>
        LET last == calls[Len(calls)]
            refs == last.blocks[last.best].line_refs
            kept == SelectSeq(refs, LAMBDA ref : ~is_footer_like(ref.text))
            source == input_dir[last.stem].pages
            emitted == output_dir[last.paper_id][1].pages
            place(page_index) == CHOOSE p \in DOMAIN source :
                                     /\ source[p].page_index = page_index
                                     /\ \A q \in 1..(p - 1) : source[q].page_index # page_index
        IN  /\ {emitted[k].page_index : k \in DOMAIN emitted}
                   = {refs[n].page_index : n \in DOMAIN refs}
            /\ \A k \in 1..(Len(emitted) - 1) :
                  place(emitted[k].page_index) < place(emitted[k + 1].page_index)
            /\ \A k \in DOMAIN emitted :
                  /\ emitted[k].text # ""
                  /\ split_on(emitted[k].text, "\n")
                         = texts_of(SelectSeq(kept, LAMBDA ref :
                                                 ref.page_index = emitted[k].page_index))
                  /\ \A line \in Range(split_on(emitted[k].text, "\n")) : ~is_footer_like(line)

(***************************************************************************)
(* Properties of the confidence gate.                                      *)
(***************************************************************************)

\* C25: if a document is detected as proceedings and one of its blocks has title_score
\* 1.0, the block best_matching_block selects, the same or another one with a higher
\* match_score, passes the confidence gate and the status is trimmed_auto.
C25_SelectedBlockPassesGate ==
    \A i \in DOMAIN calls :
        (/\ rows[i].proceedings_detected = "true"
         /\ \E k \in DOMAIN calls[i].blocks : calls[i].blocks[k].title_score = One) =>
            /\ calls[i].best # 0
            /\ LET best == calls[i].blocks[calls[i].best]
               IN  \/ FracGE(best.title_score, <<7, 10>>)
                   \/ /\ FracGE(best.title_score, <<55, 100>>)
                      /\ FracGE(best.author_score, <<1, 4>>)
                      /\ FracGE(best.match_score, <<6, 10>>)
            /\ rows[i].trim_status = "trimmed_auto"

\* a block with title_score 1.0 that is not selected because a later block has a higher
\* match_score
C25_Witness ==
    \E i \in DOMAIN calls :
        \E k \in DOMAIN calls[i].blocks :
            /\ calls[i].blocks[k].title_score = One
            /\ k < calls[i].best
            /\ FracGT(calls[i].blocks[calls[i].best].match_score, calls[i].blocks[k].match_score)
            /\ rows[i].trim_status = "trimmed_auto"

\* C26 amended: if a document is detected as proceedings and the block its blocks'
\* match_score selects (the first block of maximal match_score) satisfies the
\* high-confidence predicate, process_record returns trimmed_auto; a block that
\* satisfies the predicate but has a smaller match_score than another block does not
\* suffice.
C26_FirstMaximalBlockPassing ==
    \A i \in DOMAIN calls :
        rows[i].proceedings_detected = "true" =>
            \A k \in DOMAIN calls[i].blocks :
                LET blocks == calls[i].blocks
                    passes ==
                        \/ FracGE(blocks[k].title_score, <<7, 10>>)
                        \/ /\ FracGE(blocks[k].title_score, <<55, 100>>)
                           /\ FracGE(blocks[k].author_score, <<1, 4>>)
                           /\ FracGE(blocks[k].match_score, <<6, 10>>)
                    maximal == \A j \in DOMAIN blocks :
                                   FracGE(blocks[k].match_score, blocks[j].match_score)
                    first == \A j \in 1..(k - 1) :
                                 ~FracGE(blocks[j].match_score, blocks[k].match_score)
                IN  (passes /\ maximal /\ first) => rows[i].trim_status = "trimmed_auto"

\* a trimmed document of two blocks whose selected block has the greater match_score
\* and passes the gate
C26_Witness ==
    \E i \in DOMAIN calls :
        /\ rows[i].trim_status = "trimmed_auto"
        /\ Len(calls[i].blocks) = 2
        /\ \E k \in DOMAIN calls[i].blocks :
              FracGT(calls[i].blocks[calls[i].best].match_score, calls[i].blocks[k].match_score)

\* C26 as stated: if a document is detected as proceedings and at least one of its
\* blocks satisfies the high-confidence predicate, process_record returns trimmed_auto.
C26_AnyPassingBlockIsTrimmed ==
    \A i \in DOMAIN calls :
        rows[i].proceedings_detected = "true" =>
            \A k \in DOMAIN calls[i].blocks :
                LET block == calls[i].blocks[k]
                IN  (\/ FracGE(block.title_score, <<7, 10>>)
                     \/ /\ FracGE(block.title_score, <<55, 100>>)
                        /\ FracGE(block.author_score, <<1, 4>>)
                        /\ FracGE(block.match_score, <<6, 10>>))
                        => rows[i].trim_status = "trimmed_auto"

\* C27: if the reference lookup has no entry for the document, or the reference title
\* normalizes to the empty string, every block's title_score is 0 and the status is
\* not_needed or manual_review_required, never trimmed_auto, whatever the author list
\* and the blocks are.
C27_NoTitleNeverTrimmed ==
    \A i \in DOMAIN calls :
        (calls[i].paper_id \notin DOMAIN reference_rows \/ normalize_text(rows[i].title) = "") =>
            /\ \A k \in DOMAIN calls[i].blocks : calls[i].blocks[k].title_score[1] = 0
            /\ rows[i].trim_status \in {"not_needed", "manual_review_required"}
            /\ output_dir[calls[i].paper_id] = << >>

\* a detected document whose reference row has authors that all match a block and no
\* title: manual review
C27_Witness ==
    \E i \in DOMAIN calls :
        /\ calls[i].paper_id \in DOMAIN reference_rows
        /\ rows[i].title = ""
        /\ calls[i].best # 0
        /\ calls[i].blocks[calls[i].best].author_score = One
        /\ rows[i].trim_status = "manual_review_required"

\* C28: after main has processed a batch of input files in sorted path order, batches
\* with two records of the same paper_id included, the registry has one row per
\* collected input path in that order, and for every row of the registry the trimmed
\* artifact output_dir/<paper_id>.json exists if and only if the row's trim_status
\* is trimmed_auto.
C28_RegistryMatchesArtifacts ==
    (pc = "done" /\ registry_file # << >>) =>
        /\ registry_file = <<rows>>
        /\ Len(rows) = Len(paths)
        /\ \A i \in DOMAIN rows :
              /\ rows[i].source_text_json_path = relative_to_repo(json_path(INPUT_DIR, paths[i]))
              /\ (output_dir[rows[i].paper_id] # << >>) <=> (rows[i].trim_status = "trimmed_auto")

\* C29 amended: whenever process_record returns trimmed_auto, the written artifact
\* holds the chosen block's lines that are not footer-like, grouped by page_index in
\* increasing order; when the block's abstract-start line is not footer-like and no
\* kept line of the block lies on a page of smaller page_index than the start line's,
\* the artifact has at least one page and the first line of its first page is the
\* abstract-start line; a block of footer-like lines alone leaves an artifact without
\* pages.
C29_StartLineOpensWhenKeptAndLowest ==
    \A i \in DOMAIN calls :
        calls[i].status = "trimmed_auto" =>
            LET refs == calls[i].blocks[calls[i].best].line_refs
                kept == SelectSeq(refs, LAMBDA ref : ~is_footer_like(ref.text))
                emitted == output_dir[calls[i].paper_id][1].pages
            IN  /\ output_dir[calls[i].paper_id] # << >>
                /\ is_abstract_start(refs[1].text)
                /\ (emitted = << >>) <=> (kept = << >>)
                /\ (/\ ~is_footer_like(refs[1].text)
                    /\ \A n \in DOMAIN kept : kept[n].page_index >= refs[1].page_index) =>
                       /\ emitted # << >>
                       /\ emitted[1].page_index = refs[1].page_index
                       /\ split_on(emitted[1].text, "\n")[1] = refs[1].text

\* a trimmed block of several lines whose abstract-start line opens the artifact
C29_Witness ==
    \E i \in DOMAIN calls :
        /\ calls[i].status = "trimmed_auto"
        /\ Len(calls[i].blocks[calls[i].best].line_refs) > 1
        /\ output_dir[calls[i].paper_id] # << >>
        /\ output_dir[calls[i].paper_id][1].pages # << >>
        /\ split_on(output_dir[calls[i].paper_id][1].pages[1].text, "\n")[1]
               = calls[i].blocks[calls[i].best].line_refs[1].text

\* C29 as stated: whenever process_record returns trimmed_auto, the written artifact
\* contains at least one page, and the first line of its first page is the chosen
\* block's abstract-start line.
C29_ArtifactOpensWithStartLine ==
    \A i \in DOMAIN calls :
        calls[i].status = "trimmed_auto" =>
            /\ output_dir[calls[i].paper_id] # << >>
            /\ output_dir[calls[i].paper_id][1].pages # << >>
            /\ split_on(output_dir[calls[i].paper_id][1].pages[1].text, "\n")[1]
                   = calls[i].blocks[calls[i].best].line_refs[1].text

\* C30: apart from the trimmed_at_utc timestamp, the decision record and the trimmed
\* artifact are a function of the document record, its path and the reference row:
\* process_record on the same inputs, from an output directory with or without an
\* earlier artifact, returns the same status, reason, signals, chosen block and
\* scores, and leaves the same artifact presence and the same artifact pages; so does
\* a second run after the first.
C30_ResultIndependentOfOutputDir ==
    \A i \in DOMAIN calls :
        LET id == calls[i].paper_id
            WithoutTime(row) == [row EXCEPT !.trimmed_at_utc = << >>]
            Same(row, best, blocks, files) ==
                /\ WithoutTime(row) = WithoutTime(rows[i])
                /\ best = calls[i].best
                /\ blocks = calls[i].blocks
                /\ Len(files) = Len(output_dir[id])
                /\ \A k \in DOMAIN files : files[k].pages = output_dir[id][k].pages
        IN  /\ \A prior \in {<< >>, <<StaleArtifact>>} :
                  LET again == process_record(calls[i].stem, input_dir[calls[i].stem],
                                              reference_rows,
                                              [output_dir EXCEPT ![id] = prior], clock, clock)
                  IN  Same(again.row, again.best, again.blocks, again.output_dir[id])
            /\ (previous # << >> /\ i \in DOMAIN previous[1].calls) =>
                  Same(previous[1].rows[i], previous[1].calls[i].best,
                       previous[1].calls[i].blocks, previous[1].output_dir[id])

\* a second run that finds the artifact the first run wrote where the first run found
\* none, and trims the document to the same pages
C30_Witness ==
    /\ previous # << >>
    /\ calls # << >>
    /\ previous[1].calls # << >>
    /\ calls[1].status = "trimmed_auto"
    /\ calls[1].existed
    /\ ~previous[1].calls[1].existed
    /\ output_dir[calls[1].paper_id] # << >>
    /\ output_dir[calls[1].paper_id][1].pages # << >>
    /\ output_dir[calls[1].paper_id][1].pages
           = previous[1].output_dir[calls[1].paper_id][1].pages

====
